---- MODULE Spec2Model ----
(***************************************************************************)
(* A model of the quantitative analysis engine of crypto-analysis-bot:     *)
(* indicators.py, patterns.py, analysis_components.py, signal_engine.py    *)
(* and the pipeline of main.py.                                            *)
(*                                                                         *)
(* Numbers.  The code computes on Python floats.  The model computes on    *)
(* exact rationals <<n, d>> (d > 0, lowest terms); <<0, 0>> is NaN, and    *)
(* every ordered comparison with NaN is FALSE, as in Python.  Prices are   *)
(* counted in ticks of 1/PriceScale, so a price list is a list of          *)
(* integers; round(x, k) rounds half to even on the exact value.           *)
(*                                                                         *)
(* Where the exact value and the float differ.  (1) A decimal tie: the     *)
(* model rounds the exact value half to even, Python rounds the nearest    *)
(* double, which lies a little above or below the tie (round(2.75, 1) is   *)
(* 2.8 here and 2.7 or 2.8 there).  (2) Sums of equal floats: an average   *)
(* of n equal closes is the close here, and may differ from it in the last *)
(* bit there, so a comparison of two such averages, or a band width that   *)
(* is exactly zero here, may come out otherwise there.  (3) math.sqrt is   *)
(* exact on squares of rationals and else the root to 1/SqrtScale.  (4)    *)
(* macd_hist of a timeframe of the trend report is kept in ticks; nothing  *)
(* of the engine reads it.  The properties below are stated on the values  *)
(* a function computed (its band width, its quotient), so that they read   *)
(* the same on the exact value and on the float.                           *)
(***************************************************************************)
EXTENDS Integers, Sequences, FiniteSets, TLC

VARIABLES
    ohlcv,       \* the primary candle series handed to the engine
    ohlcv_1h,    \* the 1h series
    ohlcv_4h,    \* the 4h series
    indicators,  \* compute_all's snapshot
    patterns,    \* detect_patterns' list
    levels,      \* find_key_levels' level set
    trend,       \* analyze_trend_mtf's report
    flow,        \* analyze_money_flow's report
    signal,      \* compute_signal's result
    scenarios,   \* build_scenarios' list
    result,      \* what a single call of a function of the engine returned
    raised,      \* the exception that ended the run, "none" if none
    returned,    \* the calls of the run that have returned
    pc,          \* the position in the run: the function called next
    _active,     \* MultiExchangeClient._active_name of every instance made so far
    _markets_loaded,  \* MultiExchangeClient._markets_loaded of every instance
    tasks,       \* the coroutines of the client in flight: where each one is
    loads,       \* the load_markets calls of the _ensure_markets calls in progress
    cache,       \* CacheManager.cache (of the singleton): key -> <<data, timestamp>>
    now,         \* time.time()
    user_data,   \* telegram_bot.user_data: user id -> selections
    last_set,    \* the latest CacheManager.set of every key: key -> <<data, time>>
    got,         \* the latest CacheManager.get: <<key, returned value>>
    handled      \* the latest update the bot has handled, and what the handler did

engineVars == <<ohlcv, ohlcv_1h, ohlcv_4h, indicators, patterns, levels, trend, flow, signal,
                scenarios, result, raised, returned, pc>>

svcVars == <<_active, _markets_loaded, tasks, loads, cache, now, user_data, last_set, got,
             handled>>

vars == <<engineVars, svcVars>>

\* no engine call is running
EngineIdle ==
    /\ ohlcv = <<>>
    /\ ohlcv_1h = <<>>
    /\ ohlcv_4h = <<>>
    /\ indicators = <<>>
    /\ patterns = <<>>
    /\ levels = <<>>
    /\ trend = <<>>
    /\ flow = <<>>
    /\ signal = <<>>
    /\ scenarios = <<>>
    /\ result = <<>>
    /\ raised = "none"
    /\ returned = {}

\* the exchange client, its cache and the bot as they are constructed
ServicesIdle ==
    /\ _active = <<"Bybit">>
    /\ _markets_loaded = <<FALSE>>
    /\ tasks = <<>>
    /\ loads = {}
    /\ cache = <<>>
    /\ now = 0
    /\ user_data = <<>>
    /\ last_set = <<>>
    /\ got = <<>>
    /\ handled = [handler |-> "none", user |-> 0, analysis |-> "none", raised |-> FALSE]

\* ------------------------------------------------------------------------
\* Bounds of the model
\* ------------------------------------------------------------------------

\* the free candles at the end of a series given to a whole run of the engine
MaxRunTail == 1
\* the free candles at the end of a series given to one function
MaxTail == 2
\* the identical candles before them when the series is padded: PadShort + 1
\* candles are the 10 that analyze_money_flow reads, PadLong + 1 the 20 of a
\* Bollinger window
PadShort == 9
PadLong == 19
\* the patterns of a snapshot given to compute_signal
MaxPatterns == 2
\* the lengths of the alternating series: AltLenMin .. AltLenMin + AltLenSpan
AltLenMin == 30
AltLenSpan == 2

\* ticks per unit of price: a price of 1000 ticks is 0.0001
PriceScale == 10 * 1000 * 1000

\* ------------------------------------------------------------------------
\* Exact arithmetic standing for Python's float arithmetic
\* ------------------------------------------------------------------------

\* F applied to values computed once: the local names of a function body
With(v, F(_)) == F(v)

With2(v, w, F(_, _)) == F(v, w)

With3(v, w, x, F(_, _, _)) == F(v, w, x)

Abs(x) == IF x < 0 THEN -x ELSE x

Max(a, b) == IF a >= b THEN a ELSE b

Min(a, b) == IF a <= b THEN a ELSE b

RECURSIVE GCD(_, _)
GCD(a, b) == IF b = 0 THEN a ELSE GCD(b, a % b)

RECURSIVE Pow10(_)
Pow10(k) == IF k = 0 THEN 1 ELSE 10 * Pow10(k - 1)

NaN == <<0, 0>>

IsNaN(a) == a[2] = 0

Norm(n, d) ==
    IF d = 0 THEN NaN
    ELSE LET g == GCD(Abs(n), Abs(d))
         IN  IF d < 0 THEN <<(-n) \div g, (-d) \div g>> ELSE <<n \div g, d \div g>>

RI(i) == <<i, 1>>

RNeg(a) == <<-a[1], a[2]>>

RAdd(a, b) ==
    IF IsNaN(a) \/ IsNaN(b) THEN NaN
    ELSE LET g == GCD(a[2], b[2])
         IN  Norm(a[1] * (b[2] \div g) + b[1] * (a[2] \div g), (a[2] \div g) * b[2])

RSub(a, b) == RAdd(a, RNeg(b))

RMul(a, b) ==
    IF IsNaN(a) \/ IsNaN(b) THEN NaN
    ELSE LET g1 == GCD(Abs(a[1]), b[2])
             g2 == GCD(Abs(b[1]), a[2])
         IN  Norm((a[1] \div g1) * (b[1] \div g2), (a[2] \div g2) * (b[2] \div g1))

\* a / b for b # 0 (every division of the engine is guarded or has a positive
\* price as its divisor)
RDiv(a, b) ==
    IF IsNaN(a) \/ IsNaN(b) \/ b[1] = 0 THEN NaN
    ELSE RMul(a, IF b[1] < 0 THEN <<-b[2], -b[1]>> ELSE <<b[2], b[1]>>)

RLt(a, b) == ~IsNaN(a) /\ ~IsNaN(b) /\ a[1] * b[2] < b[1] * a[2]

RLe(a, b) == ~IsNaN(a) /\ ~IsNaN(b) /\ a[1] * b[2] <= b[1] * a[2]

RGt(a, b) == RLt(b, a)

RGe(a, b) == RLe(b, a)

\* Python's ==: NaN equals nothing, itself included
REq(a, b) == ~IsNaN(a) /\ ~IsNaN(b) /\ a = b

RAbs(a) == <<Abs(a[1]), a[2]>>

\* max(a, b) and min(a, b) of Python: the first argument unless the second
\* compares greater (smaller), so a NaN first argument is returned
RMax(a, b) == IF RGt(b, a) THEN b ELSE a

RMin(a, b) == IF RLt(b, a) THEN b ELSE a

\* floor(a)
RFloor(a) == a[1] \div a[2]

\* the integer nearest to a, halves to the even one
RoundHalfEven(a) ==
    LET q == a[1] \div a[2]
        r == a[1] - q * a[2]
    IN  IF 2 * r < a[2] THEN q
        ELSE IF 2 * r > a[2] THEN q + 1
        ELSE IF q % 2 = 0 THEN q ELSE q + 1

\* round(a, k) of a plain number
RRound(a, k) ==
    IF IsNaN(a) THEN NaN ELSE Norm(RoundHalfEven(RMul(a, RI(Pow10(k)))), Pow10(k))

\* a price in ticks as a number
Price(t) == RDiv(t, RI(PriceScale))

\* round(a, k) of a price in ticks, as a number
RoundPrice(t, k) ==
    IF IsNaN(t) THEN NaN
    ELSE Norm(RoundHalfEven(RMul(t, Norm(Pow10(k), PriceScale))), Pow10(k))

\* ------------------------------------------------------------------------
\* Python lists
\* ------------------------------------------------------------------------

PyIdx(n, i) == IF i < 0 THEN Max(0, n + i) ELSE Min(i, n)

\* s[a:b]
PySlice(s, a, b) ==
    LET lo == PyIdx(Len(s), a)
        hi == PyIdx(Len(s), b)
    IN  IF hi <= lo THEN <<>> ELSE SubSeq(s, lo + 1, hi)

\* s[a:]
PyFrom(s, a) == PySlice(s, a, Len(s))

\* s[:b]
PyTo(s, b) == PySlice(s, 0, b)

\* s[i] is defined
PyInRange(s, i) == -Len(s) <= i /\ i < Len(s)

\* s[i]
PyAt(s, i) == IF i < 0 THEN s[Len(s) + i + 1] ELSE s[i + 1]

\* s[-1]
Last(s) == s[Len(s)]

RECURSIVE SumR(_)
SumR(s) == IF s = <<>> THEN RI(0) ELSE RAdd(s[1], SumR(Tail(s)))

RECURSIVE SumI(_)
SumI(s) == IF s = <<>> THEN 0 ELSE s[1] + SumI(Tail(s))

RSeq(s) == [i \in DOMAIN s |-> RI(s[i])]

Repeat(x, n) == [i \in 1..n |-> x]

Opens(o) == [i \in DOMAIN o |-> o[i].open]

Highs(o) == [i \in DOMAIN o |-> o[i].high]

Lows(o) == [i \in DOMAIN o |-> o[i].low]

Closes(o) == [i \in DOMAIN o |-> o[i].close]

Volumes(o) == [i \in DOMAIN o |-> o[i].volume]

\* ------------------------------------------------------------------------
\* indicators.py: program constants (config.py)
\* ------------------------------------------------------------------------

SMA_FAST == 9
SMA_MID == 21
SMA_SLOW == 50
EMA_FAST == 12
EMA_SLOW == 26
RSI_PERIOD == 14
MACD_FAST == 12
MACD_SLOW == 26
MACD_SIGNAL == 9
BB_PERIOD == 20
BB_STD == 2
ATR_PERIOD == 14
VOLUME_MA_PERIOD == 20
\* VOLUME_SPIKE_THRESHOLD = 1.5
VOLUME_SPIKE_THRESHOLD == <<3, 2>>
\* CLUSTER_TOLERANCE = 0.015
CLUSTER_TOLERANCE == <<3, 200>>
MIN_TOUCHES == 2
LEVEL_LOOKBACK == 100

\* ------------------------------------------------------------------------
\* indicators.py: moving averages, RSI, MACD
\* ------------------------------------------------------------------------

\* sma(data, period): NaN in the first period - 1 places, whatever len(data) is
sma(data, period) ==
    Repeat(NaN, period - 1) \o
    [j \in 1..Max(0, Len(data) - period + 1) |->
        RDiv(SumR(PySlice(data, j - 1, j - 1 + period)), RI(period))]

RECURSIVE emaLoop(_, _, _, _)
emaLoop(data, k, i, out) ==
    IF i > Len(data) THEN out
    ELSE emaLoop(data, k, i + 1,
                 Append(out, RAdd(RMul(data[i], k), RMul(Last(out), RSub(RI(1), k)))))

\* ema(data, period): seeded with the first value
ema(data, period) == emaLoop(data, Norm(2, period + 1), 2, <<data[1]>>)

sma_last(data, period) ==
    IF Len(data) < period THEN RDiv(SumR(data), RI(Len(data)))
    ELSE RDiv(SumR(PyFrom(data, -period)), RI(period))

ema_last(data, period) == Last(ema(data, period))

\* 100.0 if avg_loss == 0, else 100 - 100 / (1 + rs)
rsiValue(avg_gain, avg_loss) ==
    IF REq(avg_loss, RI(0)) THEN RI(100)
    ELSE RSub(RI(100), RDiv(RI(100), RAdd(RI(1), RDiv(avg_gain, avg_loss))))

\* one step of Wilder's smoothing: (avg * (period - 1) + x) / period
wilder(avg, x, period) == RDiv(RAdd(RMul(avg, RI(period - 1)), x), RI(period))

RECURSIVE rsiLoop(_, _, _, _, _, _, _)
rsiLoop(gains, losses, period, i, avg_gain, avg_loss, out) ==
    IF i > Len(gains) THEN out
    ELSE With2(wilder(avg_gain, gains[i], period), wilder(avg_loss, losses[i], period),
               LAMBDA g, l :
                   rsiLoop(gains, losses, period, i + 1, g, l, Append(out, rsiValue(g, l))))

\* rsi(closes, period): Wilder smoothing
rsi(closes, period) ==
    With([i \in 1..(Len(closes) - 1) |-> RSub(closes[i + 1], closes[i])], LAMBDA deltas :
    With2([i \in DOMAIN deltas |-> RMax(deltas[i], RI(0))],
          [i \in DOMAIN deltas |-> RAbs(RMin(deltas[i], RI(0)))], LAMBDA gains, losses :
    With2(RDiv(SumR(PyTo(gains, period)), RI(period)),
          RDiv(SumR(PyTo(losses, period)), RI(period)), LAMBDA avg_gain, avg_loss :
        rsiLoop(gains, losses, period, period + 1, avg_gain, avg_loss,
                Append(Repeat(NaN, period), rsiValue(avg_gain, avg_loss))))))

rsi_last(closes) == Last(rsi(closes, RSI_PERIOD))

\* a[i] - b[i] at every place
seqSub(a, b) == [i \in DOMAIN a |-> RSub(a[i], b[i])]

macd(closes) ==
    With(seqSub(ema(closes, MACD_FAST), ema(closes, MACD_SLOW)), LAMBDA macd_line :
    With(ema(macd_line, MACD_SIGNAL), LAMBDA signal_line :
        [macd |-> macd_line,
         signal |-> signal_line,
         histogram |-> seqSub(macd_line, signal_line)]))

macd_last(closes) ==
    With(macd(closes), LAMBDA m :
        [macd |-> Last(m.macd), signal |-> Last(m.signal), histogram |-> Last(m.histogram)])

\* ------------------------------------------------------------------------
\* indicators.py: Bollinger Bands
\* ------------------------------------------------------------------------

RECURSIVE IsqrtIn(_, _, _)
IsqrtIn(n, lo, hi) ==
    IF lo >= hi THEN lo
    ELSE LET mid == (lo + hi + 1) \div 2
         IN  IF mid * mid <= n THEN IsqrtIn(n, mid, hi) ELSE IsqrtIn(n, lo, mid - 1)

\* floor of the square root of a natural number
Isqrt(n) == IsqrtIn(n, 0, Min(n, 46340))

\* ticks per unit in which a square root is kept
SqrtScale == 10 * 10

\* math.sqrt(a): exact when a is the square of a rational, else cut to
\* 1/SqrtScale
RSqrt(a) ==
    IF IsNaN(a) THEN NaN
    ELSE With2(Isqrt(a[1]), Isqrt(a[2]), LAMBDA rn, rd :
             IF rn * rn = a[1] /\ rd * rd = a[2] THEN <<rn, rd>>
             ELSE Norm(Isqrt(RFloor(RMul(a, RI(SqrtScale * SqrtScale)))), SqrtScale))

\* (x - mean) ** 2
sqDev(x, mean) == With(RSub(x, mean), LAMBDA dev : RMul(dev, dev))

\* the population standard deviation of window about mean
windowStd(window, mean) ==
    RSqrt(RDiv(SumR([i \in DOMAIN window |-> sqDev(window[i], mean)]), RI(Len(window))))

\* bollinger_bands(closes): upper, middle (SMA), lower
bollinger_bands(closes) ==
    With(sma(closes, BB_PERIOD), LAMBDA middle :
    With([i \in DOMAIN closes |->
             IF IsNaN(middle[i]) THEN NaN
             ELSE RMul(RI(BB_STD),
                       windowStd(PySlice(closes, Max(0, i - BB_PERIOD), i), middle[i]))],
         LAMBDA band :
        [upper |-> [i \in DOMAIN closes |-> RAdd(middle[i], band[i])],
         middle |-> middle,
         lower |-> [i \in DOMAIN closes |-> RSub(middle[i], band[i])]]))

\* a faulty pct_b: the fallback value whatever the bands are
bbPctBAlwaysHalf(close, upper, lower) == <<1, 2>>

\* pct_b of bb_last: 0.5 when upper - lower == 0
bbPctB(close, upper, lower) ==
    With(RSub(upper, lower), LAMBDA width :
        IF ~REq(width, RI(0)) THEN RDiv(RSub(close, lower), width) ELSE <<1, 2>>)

bb_last(closes) ==
    With(bollinger_bands(closes), LAMBDA bb :
    With3(Last(bb.upper), Last(bb.middle), Last(bb.lower), LAMBDA upper, middle, lower :
        [upper |-> upper,
         middle |-> middle,
         lower |-> lower,
         width |-> RMul(RDiv(RSub(upper, lower), middle), RI(100)),
         pct_b |-> bbPctB(Last(closes), upper, lower)]))

\* ------------------------------------------------------------------------
\* indicators.py: ATR, Stochastic, ADX
\* ------------------------------------------------------------------------

\* max(high - low, abs(high - prevClose), abs(low - prevClose)) of bar i > 1
trueRange(highs, lows, closes, i) ==
    RMax(RMax(RSub(highs[i], lows[i]), RAbs(RSub(highs[i], closes[i - 1]))),
         RAbs(RSub(lows[i], closes[i - 1])))

RECURSIVE wilderLoop(_, _, _, _)
wilderLoop(arr, period, i, out) ==
    IF i > Len(arr) THEN out
    ELSE wilderLoop(arr, period, i + 1, Append(out, wilder(Last(out), arr[i], period)))

\* atr(highs, lows, closes, period): the first value stands at place period,
\* whatever len(closes) is
atr(highs, lows, closes, period) ==
    With([i \in DOMAIN closes |->
             IF i = 1 THEN RSub(highs[1], lows[1])
             ELSE trueRange(highs, lows, closes, i)], LAMBDA tr_list :
        wilderLoop(tr_list, period, period + 1,
                   Append(Repeat(NaN, period - 1),
                          RDiv(SumR(PyTo(tr_list, period)), RI(period)))))

atr_last(highs, lows, closes) == Last(atr(highs, lows, closes, ATR_PERIOD))

RECURSIVE MaxOf(_)
MaxOf(s) == IF Len(s) = 1 THEN s[1] ELSE RMax(s[1], MaxOf(Tail(s)))

RECURSIVE MinOf(_)
MinOf(s) == IF Len(s) = 1 THEN s[1] ELSE RMin(s[1], MinOf(Tail(s)))

STOCH_K_PERIOD == 14
STOCH_D_PERIOD == 3

\* a faulty %K: the fallback value whatever the window is
stochKAlwaysFifty(close, h, l) == RI(50)

\* one %K: 50.0 when the window's highest high equals its lowest low
stochK(close, h, l) ==
    IF REq(h, l) THEN RI(50)
    ELSE RMul(RDiv(RSub(close, l), RSub(h, l)), RI(100))

stochastic(highs, lows, closes) ==
    With([i \in DOMAIN closes |->
             stochK(closes[i],
                    MaxOf(PySlice(highs, Max(0, i - STOCH_K_PERIOD), i)),
                    MinOf(PySlice(lows, Max(0, i - STOCH_K_PERIOD), i)))], LAMBDA k_vals :
        [k |-> k_vals, d |-> sma(k_vals, STOCH_D_PERIOD)])

stochastic_last(highs, lows, closes) ==
    With(stochastic(highs, lows, closes), LAMBDA s : [k |-> Last(s.k), d |-> Last(s.d)])

ADX_PERIOD == 14

RECURSIVE smoothLoop(_, _, _, _)
smoothLoop(arr, period, i, s) ==
    IF i > Len(arr) THEN s
    ELSE smoothLoop(arr, period, i + 1,
                    Append(s, RAdd(RSub(Last(s), RDiv(Last(s), RI(period))), arr[i])))

\* smooth(arr) of adx: Wilder's running sum
smooth(arr, period) == smoothLoop(arr, period, period + 1, <<SumR(PyTo(arr, period))>>)

RECURSIVE adxLoop(_, _, _, _)
adxLoop(dx, period, i, adx_val) ==
    IF i > Len(dx) THEN adx_val
    ELSE adxLoop(dx, period, i + 1, wilder(adx_val, dx[i], period))

\* one directional movement: move if it is the greater one and positive, else 0
directionalMove(move, other) ==
    IF RGt(move, other) /\ RGt(move, RI(0)) THEN move ELSE RI(0)

\* 100 * dm / str at every place, 0 where str is 0
directionalIndex(dm, str_list) ==
    [i \in DOMAIN str_list |->
        IF ~REq(str_list[i], RI(0))
        THEN RDiv(RMul(RI(100), dm[i]), str_list[i]) ELSE RI(0)]

\* abs(plus - minus) / (plus + minus) * 100, 0 when the sum is 0
dxValue(plus, minus) ==
    With(RAdd(plus, minus), LAMBDA di_sum :
        IF ~REq(di_sum, RI(0))
        THEN RMul(RDiv(RAbs(RSub(plus, minus)), di_sum), RI(100))
        ELSE RI(0))

\* adx(highs, lows, closes): the latest ADX, +DI, -DI
adx(highs, lows, closes) ==
    IF Len(closes) - 1 < ADX_PERIOD
    THEN [adx |-> RI(25), plus_di |-> RI(50), minus_di |-> RI(50)]
    ELSE
    With2([i \in 1..(Len(closes) - 1) |-> RSub(highs[i + 1], highs[i])],
          [i \in 1..(Len(closes) - 1) |-> RSub(lows[i], lows[i + 1])], LAMBDA up, down :
    With(smooth([i \in DOMAIN up |-> trueRange(highs, lows, closes, i + 1)], ADX_PERIOD),
         LAMBDA str_list :
    With2(directionalIndex(
              smooth([i \in DOMAIN up |-> directionalMove(up[i], down[i])], ADX_PERIOD),
              str_list),
          directionalIndex(
              smooth([i \in DOMAIN up |-> directionalMove(down[i], up[i])], ADX_PERIOD),
              str_list), LAMBDA plus_di, minus_di :
    With([i \in DOMAIN str_list |-> dxValue(plus_di[i], minus_di[i])], LAMBDA dx :
        [adx |-> RRound(IF Len(dx) < ADX_PERIOD
                        THEN RDiv(SumR(dx), RI(Len(dx)))
                        ELSE adxLoop(dx, ADX_PERIOD, ADX_PERIOD + 1,
                                     RDiv(SumR(PyTo(dx, ADX_PERIOD)), RI(ADX_PERIOD))), 1),
         plus_di |-> RRound(Last(plus_di), 1),
         minus_di |-> RRound(Last(minus_di), 1)]))))

\* ------------------------------------------------------------------------
\* indicators.py: OBV, VWAP, volume helpers, compute_all
\* ------------------------------------------------------------------------

RECURSIVE obvLoop(_, _, _, _)
obvLoop(closes, volumes, i, vals) ==
    IF i > Len(closes) THEN vals
    ELSE obvLoop(closes, volumes, i + 1,
                 Append(vals,
                        IF RGt(closes[i], closes[i - 1]) THEN RAdd(Last(vals), volumes[i])
                        ELSE IF RLt(closes[i], closes[i - 1]) THEN RSub(Last(vals), volumes[i])
                        ELSE Last(vals)))

\* obv(closes, volumes): the running sum of signed volume, from 0.0
obv(closes, volumes) == obvLoop(closes, volumes, 2, <<RI(0)>>)

OBV_LOOKBACK == 20

\* the relative change of the first to the last of recent, 0 when the first is 0
obvSlope(recent) ==
    IF ~REq(recent[1], RI(0))
    THEN RDiv(RSub(Last(recent), recent[1]), RAbs(recent[1]))
    ELSE RI(0)

obv_trend(closes, volumes) ==
    With(obv(closes, volumes), LAMBDA o :
        IF Len(o) < OBV_LOOKBACK THEN "neutral"
        ELSE With(obvSlope(PyFrom(o, -OBV_LOOKBACK)), LAMBDA slope :
                 IF RGt(slope, <<1, 20>>) THEN "rising"
                 ELSE IF RLt(slope, <<-1, 20>>) THEN "falling"
                 ELSE "flat"))

\* vwap(highs, lows, closes, volumes): closes[-1] when the total volume is 0
vwap(highs, lows, closes, volumes) ==
    With(SumR(volumes), LAMBDA total_vol :
        IF ~REq(total_vol, RI(0))
        THEN RDiv(SumR([i \in DOMAIN closes |->
                           RMul(RDiv(RAdd(RAdd(highs[i], lows[i]), closes[i]), RI(3)),
                                volumes[i])]),
                  total_vol)
        ELSE Last(closes))

volume_sma(volumes) == sma_last(volumes, VOLUME_MA_PERIOD)

\* volumes[-1] / average volume, 1.0 when the average is 0
volume_ratio(volumes) ==
    With(volume_sma(volumes), LAMBDA avg :
        IF ~REq(avg, RI(0)) THEN RDiv(Last(volumes), avg) ELSE RI(1))

is_volume_spike(volumes) == RGe(volume_ratio(volumes), VOLUME_SPIKE_THRESHOLD)

VOLUME_TREND_LOOKBACK == 10

\* second_half / first_half, 1.0 when first_half is 0
halvesRatio(first_half, second_half) ==
    IF ~REq(first_half, RI(0)) THEN RDiv(second_half, first_half) ELSE RI(1)

volume_trend(volumes) ==
    IF Len(volumes) < VOLUME_TREND_LOOKBACK THEN "unknown"
    ELSE With(VOLUME_TREND_LOOKBACK \div 2, LAMBDA half :
         With(halvesRatio(
                  RDiv(SumR(PySlice(volumes, -VOLUME_TREND_LOOKBACK, -half)), RI(half)),
                  RDiv(SumR(PyFrom(volumes, -half)), RI(half))), LAMBDA ratio :
             IF RGt(ratio, <<6, 5>>) THEN "increasing"
             ELSE IF RLt(ratio, <<4, 5>>) THEN "decreasing"
             ELSE "stable"))

\* the record compute_all builds of the values it has computed
indicatorRecord(c, v, _rsi, _macd, _bb, _atr, _stoch, _adx, _vwap) ==
    [price |-> Price(Last(c)),
     rsi |-> RRound(_rsi, 1),
     macd_line |-> RoundPrice(_macd.macd, 6),
     macd_signal |-> RoundPrice(_macd.signal, 6),
     macd_hist |-> RoundPrice(_macd.histogram, 6),
     bb_upper |-> RoundPrice(_bb.upper, 2),
     bb_middle |-> RoundPrice(_bb.middle, 2),
     bb_lower |-> RoundPrice(_bb.lower, 2),
     bb_width |-> RRound(_bb.width, 2),
     bb_pct_b |-> RRound(_bb.pct_b, 3),
     atr |-> RoundPrice(_atr, 4),
     atr_pct |-> RRound(RMul(RDiv(_atr, Last(c)), RI(100)), 2),
     stoch_k |-> RRound(_stoch.k, 1),
     stoch_d |-> RRound(_stoch.d, 1),
     adx |-> _adx.adx,
     plus_di |-> _adx.plus_di,
     minus_di |-> _adx.minus_di,
     vwap |-> RoundPrice(_vwap, 2),
     price_vs_vwap |-> RRound(RMul(RDiv(RSub(Last(c), _vwap), _vwap), RI(100)), 2),
     sma_9 |-> RoundPrice(sma_last(c, SMA_FAST), 2),
     sma_21 |-> RoundPrice(sma_last(c, SMA_MID), 2),
     sma_50 |-> RoundPrice(sma_last(c, SMA_SLOW), 2),
     ema_12 |-> RoundPrice(ema_last(c, EMA_FAST), 2),
     ema_26 |-> RoundPrice(ema_last(c, EMA_SLOW), 2),
     vol_ratio |-> RRound(volume_ratio(v), 2),
     vol_spike |-> is_volume_spike(v),
     vol_trend |-> volume_trend(v),
     obv_trend |-> obv_trend(c, v)]

\* compute_all(ohlcv): every indicator at the latest candle.  Prices are
\* returned as numbers (ticks / PriceScale), rounded as the code rounds them.
computeAllOf(c, h, l, v) ==
    indicatorRecord(c, v, rsi_last(c), macd_last(c), bb_last(c), atr_last(h, l, c),
                    stochastic_last(h, l, c), adx(h, l, c), vwap(h, l, c, v))

compute_all(o) == computeAllOf(RSeq(Closes(o)), RSeq(Highs(o)), RSeq(Lows(o)), RSeq(Volumes(o)))

\* ------------------------------------------------------------------------
\* patterns.py.  Prices are integers (ticks); a bar index i counts from 0 as
\* in the code, and a detector returns <<>> for None, <<match>> for a match.
\* ------------------------------------------------------------------------

_body(o, c) == Abs(c - o)

_upper_shadow(h, o, c) == h - Max(o, c)

_lower_shadow(l, o, c) == Min(o, c) - l

_range(h, l) == h - l

_is_bullish(o, c) == c > o

_is_bearish(o, c) == o > c

Match(name, bias, strength, i) ==
    <<[name |-> name, bias |-> bias, strength |-> strength, index |-> i]>>

\* body / range < 0.10
_detect_doji(opens, highs, lows, closes, i) ==
    LET r == _range(highs[i + 1], lows[i + 1])
    IN  IF r = 0 THEN <<>>
        ELSE IF 10 * _body(opens[i + 1], closes[i + 1]) < r
             THEN Match("Doji", "neutral", 1, i)
        ELSE <<>>

\* ls >= body * 2 and us < body * 0.5 and body / r < 0.35
_detect_hammer(opens, highs, lows, closes, i) ==
    LET o == opens[i + 1]
        h == highs[i + 1]
        l == lows[i + 1]
        c == closes[i + 1]
        r == _range(h, l)
        body == _body(o, c)
        ls == _lower_shadow(l, o, c)
        us == _upper_shadow(h, o, c)
    IN  IF r = 0 THEN <<>>
        ELSE IF ls >= body * 2 /\ 2 * us < body /\ 100 * body < 35 * r
             THEN IF i >= 3 /\ c < closes[i - 2] THEN Match("Hammer", "bullish", 2, i)
                  ELSE IF i >= 3 /\ c > closes[i - 2]
                       THEN Match("Hanging Man", "bearish", 2, i)
                  ELSE <<>>
        ELSE <<>>

\* us >= body * 2 and ls < body * 0.5 and body / r < 0.35
_detect_shooting_star(opens, highs, lows, closes, i) ==
    LET o == opens[i + 1]
        h == highs[i + 1]
        l == lows[i + 1]
        c == closes[i + 1]
        r == _range(h, l)
        body == _body(o, c)
        us == _upper_shadow(h, o, c)
        ls == _lower_shadow(l, o, c)
    IN  IF r = 0 THEN <<>>
        ELSE IF us >= body * 2 /\ 2 * ls < body /\ 100 * body < 35 * r
             THEN IF i >= 3 /\ c > closes[i - 2]
                  THEN Match("Shooting Star", "bearish", 2, i)
                  ELSE IF i >= 3 /\ c < closes[i - 2]
                       THEN Match("Inverted Hammer", "bullish", 1, i)
                  ELSE <<>>
        ELSE <<>>

_detect_engulfing(opens, highs, lows, closes, i) ==
    IF i < 1 THEN <<>>
    ELSE LET o0 == opens[i]
             c0 == closes[i]
             o1 == opens[i + 1]
             c1 == closes[i + 1]
         IN  IF _is_bearish(o0, c0) /\ _is_bullish(o1, c1) /\ o1 <= c0 /\ c1 >= o0
             THEN Match("Bullish Engulfing", "bullish", 3, i)
             ELSE IF _is_bullish(o0, c0) /\ _is_bearish(o1, c1) /\ o1 >= c0 /\ c1 <= o0
                  THEN Match("Bearish Engulfing", "bearish", 3, i)
             ELSE <<>>

_detect_morning_evening_star(opens, highs, lows, closes, i) ==
    IF i < 2 THEN <<>>
    ELSE LET o0 == opens[i - 1]
             c0 == closes[i - 1]
             o2 == opens[i + 1]
             c2 == closes[i + 1]
             body0 == _body(o0, c0)
             body1 == _body(opens[i], closes[i])
             body2 == _body(o2, c2)
         IN  IF _is_bearish(o0, c0) /\ body0 > body1 * 2
                /\ _is_bullish(o2, c2) /\ body2 > body1 * 2
             THEN Match("Morning Star", "bullish", 3, i)
             ELSE IF _is_bullish(o0, c0) /\ body0 > body1 * 2
                     /\ _is_bearish(o2, c2) /\ body2 > body1 * 2
                  THEN Match("Evening Star", "bearish", 3, i)
             ELSE <<>>

_detect_three_soldiers_crows(opens, highs, lows, closes, i) ==
    IF i < 2 THEN <<>>
    ELSE IF (\A j \in 0..2 : _is_bullish(opens[i + 1 - j], closes[i + 1 - j]))
            /\ closes[i + 1] > closes[i] /\ closes[i] > closes[i - 1]
         THEN Match("Three White Soldiers", "bullish", 3, i)
    ELSE IF (\A j \in 0..2 : _is_bearish(opens[i + 1 - j], closes[i + 1 - j]))
            /\ closes[i + 1] < closes[i] /\ closes[i] < closes[i - 1]
         THEN Match("Three Black Crows", "bearish", 3, i)
    ELSE <<>>

\* abs(x) <= tol, where tol = range * 0.05 if range else 0.001
withinTweezerTol(x, r) ==
    IF r # 0 THEN 20 * Abs(x) <= r ELSE 1000 * Abs(x) <= PriceScale

_detect_tweezer(opens, highs, lows, closes, i) ==
    IF i < 1 THEN <<>>
    ELSE LET r == _range(highs[i + 1], lows[i + 1])
         IN  IF withinTweezerTol(highs[i + 1] - highs[i], r)
                /\ _is_bearish(opens[i + 1], closes[i + 1])
                /\ _is_bullish(opens[i], closes[i])
             THEN Match("Tweezer Top", "bearish", 2, i)
             ELSE IF withinTweezerTol(lows[i + 1] - lows[i], r)
                     /\ _is_bullish(opens[i + 1], closes[i + 1])
                     /\ _is_bearish(opens[i], closes[i])
                  THEN Match("Tweezer Bottom", "bullish", 2, i)
             ELSE <<>>

\* ls / r >= 0.66, then us / r >= 0.66
_detect_pin_bar(opens, highs, lows, closes, i) ==
    LET o == opens[i + 1]
        h == highs[i + 1]
        l == lows[i + 1]
        c == closes[i + 1]
        r == _range(h, l)
    IN  IF r = 0 THEN <<>>
        ELSE IF 100 * _lower_shadow(l, o, c) >= 66 * r
             THEN Match("Bullish Pin Bar", "bullish", 2, i)
        ELSE IF 100 * _upper_shadow(h, o, c) >= 66 * r
             THEN Match("Bearish Pin Bar", "bearish", 2, i)
        ELSE <<>>

PATTERN_LOOKBACK == 10

\* the matches of the eight detectors at bar i, in the order they are called
detectAt(opens, highs, lows, closes, i) ==
    _detect_doji(opens, highs, lows, closes, i)
    \o _detect_hammer(opens, highs, lows, closes, i)
    \o _detect_shooting_star(opens, highs, lows, closes, i)
    \o _detect_engulfing(opens, highs, lows, closes, i)
    \o _detect_morning_evening_star(opens, highs, lows, closes, i)
    \o _detect_three_soldiers_crows(opens, highs, lows, closes, i)
    \o _detect_tweezer(opens, highs, lows, closes, i)
    \o _detect_pin_bar(opens, highs, lows, closes, i)

withBarsAgo(ms, n) ==
    [k \in DOMAIN ms |->
        [name |-> ms[k].name, bias |-> ms[k].bias, strength |-> ms[k].strength,
         index |-> ms[k].index, bars_ago |-> n - 1 - ms[k].index]]

RECURSIVE scanBars(_, _, _)
scanBars(o, i, acc) ==
    IF i >= Len(o) THEN acc
    ELSE scanBars(o, i + 1,
                  acc \o withBarsAgo(detectAt(Opens(o), Highs(o), Lows(o), Closes(o), i),
                                     Len(o)))

\* the list `patterns` of detect_patterns before deduplication
rawPatterns(o) == scanBars(o, Max(0, Len(o) - PATTERN_LOOKBACK), <<>>)

\* a faulty comparison: the later match always replaces the earlier one
replacesAlways(p, old) == TRUE

\* a faulty comparison: a later match of the same strength replaces too
replacesOnTie(p, old) == p.strength >= old.strength

\* p["strength"] > seen[key]["strength"]
replaces(p, old) == p.strength > old.strength

\* the dict `seen`, as the list of its values in insertion order
RECURSIVE dedupe(_, _)
dedupe(raw, seen) ==
    IF raw = <<>> THEN seen
    ELSE LET p == Head(raw)
             hit == {k \in DOMAIN seen : seen[k].index = p.index /\ seen[k].bias = p.bias}
         IN  IF hit = {} THEN dedupe(Tail(raw), Append(seen, p))
             ELSE LET k == CHOOSE k \in hit : TRUE
                  IN  IF replaces(p, seen[k])
                      THEN dedupe(Tail(raw), [seen EXCEPT ![k] = p])
                      ELSE dedupe(Tail(raw), seen)

\* a faulty sort: the matches in the order the scan found them
sortByIndexUnsorted(todo, done) == done \o todo

\* sorted(..., key=index, reverse=True): stable
RECURSIVE sortByIndexDesc(_, _)
sortByIndexDesc(todo, done) ==
    IF todo = <<>> THEN done
    ELSE LET p == Head(todo)
             at == Cardinality({k \in DOMAIN done : done[k].index >= p.index})
         IN  sortByIndexDesc(Tail(todo),
                             SubSeq(done, 1, at) \o <<p>> \o SubSeq(done, at + 1, Len(done)))

detect_patterns(o) == sortByIndexDesc(dedupe(rawPatterns(o), <<>>), <<>>)

\* ------------------------------------------------------------------------
\* analysis_components.py: support / resistance
\* ------------------------------------------------------------------------

RECURSIVE sortAsc(_, _)
sortAsc(todo, done) ==
    IF todo = <<>> THEN done
    ELSE LET at == Cardinality({k \in DOMAIN done : done[k] <= Head(todo)})
         IN  sortAsc(Tail(todo),
                     SubSeq(done, 1, at) \o <<Head(todo)>> \o SubSeq(done, at + 1, Len(done)))

\* where the inner while loop stops: the first place j > i that is past the end
\* or fails (sorted_p[j] - sorted_p[i]) / sorted_p[i] <= tolerance
\* a faulty inner loop: each price is compared with the one before it
RECURSIVE groupEndChained(_, _, _, _)
groupEndChained(sorted_p, tolerance, i, j) ==
    IF j <= Len(sorted_p)
       /\ RLe(RDiv(RI(sorted_p[j] - sorted_p[j - 1]), RI(sorted_p[j - 1])), tolerance)
    THEN groupEndChained(sorted_p, tolerance, i, j + 1)
    ELSE j

RECURSIVE groupEnd(_, _, _, _)
groupEnd(sorted_p, tolerance, i, j) ==
    IF j <= Len(sorted_p)
       /\ RLe(RDiv(RI(sorted_p[j] - sorted_p[i]), RI(sorted_p[i])), tolerance)
    THEN groupEnd(sorted_p, tolerance, i, j + 1)
    ELSE j

\* a faulty outer loop: every group is reported, whatever its size
RECURSIVE clusterLoopAll(_, _, _, _)
clusterLoopAll(sorted_p, tolerance, i, clusters) ==
    IF i > Len(sorted_p) THEN clusters
    ELSE With(groupEnd(sorted_p, tolerance, i, i + 1), LAMBDA j :
         With(SubSeq(sorted_p, i, j - 1), LAMBDA group :
             clusterLoopAll(sorted_p, tolerance, j,
                            Append(clusters,
                                   <<RDiv(RI(SumI(group)), RI(Len(group))), Len(group)>>))))

RECURSIVE clusterLoop(_, _, _, _)
clusterLoop(sorted_p, tolerance, i, clusters) ==
    IF i > Len(sorted_p) THEN clusters
    ELSE With(groupEnd(sorted_p, tolerance, i, i + 1), LAMBDA j :
         With(SubSeq(sorted_p, i, j - 1), LAMBDA group :
             clusterLoop(sorted_p, tolerance, j,
                         IF Len(group) >= MIN_TOUCHES
                         THEN Append(clusters,
                                     <<RDiv(RI(SumI(group)), RI(Len(group))), Len(group)>>)
                         ELSE clusters)))

\* _cluster_levels(prices, tolerance): (level_price, touch_count) clusters
_cluster_levels(prices, tolerance) == clusterLoop(sortAsc(prices, <<>>), tolerance, 1, <<>>)

\* a faulty filter: no cluster qualifies
filterLevelsNone(clusters, bound, above) == <<>>

\* [(lvl, tc) for lvl, tc in clusters if lvl > bound] (above), lvl < bound (not above)
RECURSIVE filterLevels(_, _, _)
filterLevels(clusters, bound, above) ==
    IF clusters = <<>> THEN <<>>
    ELSE (IF (IF above THEN RGt(clusters[1][1], bound) ELSE RLt(clusters[1][1], bound))
          THEN <<clusters[1]>> ELSE <<>>)
         \o filterLevels(Tail(clusters), bound, above)

\* a faulty sort: the levels in the order the clusters were found
sortLevelsUnsorted(todo, done, desc) == done \o todo

\* sorted(levels, key=price), reverse=True when desc: stable
RECURSIVE sortLevels(_, _, _)
sortLevels(todo, done, desc) ==
    IF todo = <<>> THEN done
    ELSE LET p == Head(todo)
             at == Cardinality({k \in DOMAIN done :
                                  IF desc THEN RGe(done[k][1], p[1]) ELSE RLe(done[k][1], p[1])})
         IN  sortLevels(Tail(todo),
                        SubSeq(done, 1, at) \o <<p>> \o SubSeq(done, at + 1, Len(done)), desc)

\* a faulty range position: measured from the top of the range, and without
\* the fallback
rangePositionFromHigh(current, max_high, min_low) ==
    RRound(RMul(RDiv(RSub(current, max_high), RSub(max_high, min_low)), RI(100)), 1)

\* round((current - min(lows)) / (max(highs) - min(lows)) * 100, 1)
\* if max(highs) != min(lows) else 50.0
rangePosition(current, max_high, min_low) ==
    IF ~REq(max_high, min_low)
    THEN RRound(RMul(RDiv(RSub(current, min_low), RSub(max_high, min_low)), RI(100)), 1)
    ELSE RI(50)

\* the dict find_key_levels returns, of the levels it has picked
levelRecord(current, r1, r2, s1, s2, _atr, max_high, min_low) ==
    [current |-> RoundPrice(current, 6),
     r1 |-> RoundPrice(r1[1], 6),
     r1_touches |-> r1[2],
     r2 |-> RoundPrice(r2[1], 6),
     r2_touches |-> r2[2],
     s1 |-> RoundPrice(s1[1], 6),
     s1_touches |-> s1[2],
     s2 |-> RoundPrice(s2[1], 6),
     s2_touches |-> s2[2],
     atr |-> RoundPrice(_atr, 6),
     atr_pct |-> IF ~REq(current, RI(0))
                 THEN RRound(RMul(RDiv(_atr, current), RI(100)), 2) ELSE RI(0),
     range_high |-> RoundPrice(max_high, 6),
     range_low |-> RoundPrice(min_low, 6),
     range_position |-> rangePosition(current, max_high, min_low)]

\* find_key_levels(ohlcv): prices are returned as numbers rounded to 6 places
find_key_levels(o) ==
    LET tol == CLUSTER_TOLERANCE
        half_tol == RMul(tol, <<1, 2>>)
    IN
    With3(PyFrom(Highs(o), -LEVEL_LOOKBACK), PyFrom(Lows(o), -LEVEL_LOOKBACK),
          RI(Last(PyFrom(Closes(o), -LEVEL_LOOKBACK))), LAMBDA highs, lows, current :
    With2(sortLevels(filterLevels(_cluster_levels(highs, tol),
                                  RMul(current, RAdd(RI(1), half_tol)), TRUE),
                     <<>>, FALSE),
          sortLevels(filterLevels(_cluster_levels(lows, tol),
                                  RMul(current, RSub(RI(1), half_tol)), FALSE),
                     <<>>, TRUE), LAMBDA resistances, supports :
    With2(MaxOf(RSeq(highs)), MinOf(RSeq(lows)), LAMBDA max_high, min_low :
    With2(IF resistances # <<>> THEN resistances[1] ELSE <<RMul(max_high, <<102, 100>>), 0>>,
          IF supports # <<>> THEN supports[1] ELSE <<RMul(min_low, <<98, 100>>), 0>>,
          LAMBDA r1, s1 :
        levelRecord(current,
                    r1,
                    IF Len(resistances) > 1 THEN resistances[2]
                    ELSE <<RMul(r1[1], <<103, 100>>), 0>>,
                    s1,
                    IF Len(supports) > 1 THEN supports[2]
                    ELSE <<RMul(s1[1], <<97, 100>>), 0>>,
                    atr_last(RSeq(Highs(o)), RSeq(Lows(o)), RSeq(Closes(o))),
                    max_high, min_low)))))

\* ------------------------------------------------------------------------
\* analysis_components.py: multi-timeframe trend
\* ------------------------------------------------------------------------

HasUp(direction) == direction \in {"up", "strong_up"}

HasDown(direction) == direction \in {"down", "strong_down"}

\* a faulty direction: without the branches "up" and "down"
trendDirectionStrongOnly(sma9, sma21, sma50, current) ==
    IF RGt(sma9, sma21) /\ RGt(sma21, sma50) /\ RGt(current, sma9) THEN "strong_up"
    ELSE IF RLt(sma9, sma21) /\ RLt(sma21, sma50) /\ RLt(current, sma9) THEN "strong_down"
    ELSE "sideways"

trendDirection(sma9, sma21, sma50, current) ==
    IF RGt(sma9, sma21) /\ RGt(sma21, sma50) /\ RGt(current, sma9) THEN "strong_up"
    ELSE IF RGt(sma9, sma21) /\ RGt(current, sma21) THEN "up"
    ELSE IF RLt(sma9, sma21) /\ RLt(sma21, sma50) /\ RLt(current, sma9) THEN "strong_down"
    ELSE IF RLt(sma9, sma21) /\ RLt(current, sma21) THEN "down"
    ELSE "sideways"

trendMomentum(_rsi) ==
    IF RGt(_rsi, RI(70)) THEN "overbought"
    ELSE IF RLt(_rsi, RI(30)) THEN "oversold"
    ELSE IF RGt(_rsi, RI(55)) THEN "bullish"
    ELSE IF RLt(_rsi, RI(45)) THEN "bearish"
    ELSE "neutral"

\* macd_hist is kept in ticks
_single_tf(data, label) ==
    With3(RSeq(Closes(data)), rsi_last(RSeq(Closes(data))),
          adx(RSeq(Highs(data)), RSeq(Lows(data)), RSeq(Closes(data))).adx,
          LAMBDA c, _rsi, adx_val :
        [tf |-> label,
         direction |-> trendDirection(sma_last(c, SMA_FAST), sma_last(c, SMA_MID),
                                      sma_last(c, SMA_SLOW), Last(c)),
         momentum |-> trendMomentum(_rsi),
         rsi |-> _rsi,
         macd_hist |-> macd_last(c).histogram,
         adx |-> adx_val,
         trend_strength |-> IF RGt(adx_val, RI(25)) THEN "strong" ELSE "weak"])

\* what one timeframe adds to the confluence score
tfScore(tf) ==
    RAdd(IF HasUp(tf.direction) THEN RI(1)
         ELSE IF HasDown(tf.direction) THEN RI(-1) ELSE RI(0),
         IF tf.momentum \in {"bullish", "overbought"} THEN <<1, 2>>
         ELSE IF tf.momentum \in {"bearish", "oversold"} THEN <<-1, 2>> ELSE RI(0))

trendOverall(score) ==
    IF RGe(score, RI(2)) THEN "bullish"
    ELSE IF RLe(score, RI(-2)) THEN "bearish"
    ELSE IF RGt(score, RI(0)) THEN "lean_bullish"
    ELSE IF RLt(score, RI(0)) THEN "lean_bearish"
    ELSE "neutral"

\* the confluence score and the overall label of the three timeframes tfs
trendReport(tfs) ==
    With(SumR([k \in 1..3 |-> tfScore(tfs[k])]), LAMBDA score :
        [overall |-> trendOverall(score),
         confluence_score |-> RRound(score, 1),
         primary |-> tfs[1],
         tf_1h |-> tfs[2],
         tf_4h |-> tfs[3]])

\* the three timeframes are analysed by the one _single_tf, in the order
\* primary, 1h, 4h
analyze_trend_mtf(o, o_1h, o_4h) ==
    With([k \in 1..3 |-> _single_tf(<<o, o_1h, o_4h>>[k], <<"primary", "1h", "4h">>[k])],
         LAMBDA tfs : trendReport(tfs))

\* ------------------------------------------------------------------------
\* analysis_components.py: money flow
\* ------------------------------------------------------------------------

FLOW_CANDLES == 10

\* c[i] for i in range(-10, 0) raises IndexError on fewer than 10 candles
analyze_money_flow_raises(o) == ~PyInRange(Closes(o), -FLOW_CANDLES)

\* a faulty classification: the thresholds of the strong flows lowered to 50
flowClassFromHalf(buy_pct, _obv) ==
    IF RGe(buy_pct, RI(50)) /\ _obv = "rising" THEN "strong_inflow"
    ELSE IF RGt(buy_pct, RI(55)) THEN "inflow"
    ELSE IF RLe(buy_pct, RI(50)) /\ _obv = "falling" THEN "strong_outflow"
    ELSE IF RLt(buy_pct, RI(45)) THEN "outflow"
    ELSE "balanced"

flowClass(buy_pct, _obv) ==
    IF RGt(buy_pct, RI(60)) /\ _obv = "rising" THEN "strong_inflow"
    ELSE IF RGt(buy_pct, RI(55)) THEN "inflow"
    ELSE IF RLt(buy_pct, RI(40)) /\ _obv = "falling" THEN "strong_outflow"
    ELSE IF RLt(buy_pct, RI(45)) THEN "outflow"
    ELSE "balanced"

\* analyze_money_flow(ohlcv, ohlcv_1h, ohlcv_4h) when it does not raise
\* round(buy_volume / total * 100, 1) if total > 0 else 50
buyPct(buy_volume, sell_volume) ==
    IF buy_volume + sell_volume > 0
    THEN RRound(RMul(Norm(buy_volume, buy_volume + sell_volume), RI(100)), 1)
    ELSE RI(50)

analyze_money_flow(o) ==
    With2(RSeq(Closes(o)), RSeq(Volumes(o)), LAMBDA c, v :
    With2(vwap(RSeq(Highs(o)), RSeq(Lows(o)), c, v), obv_trend(c, v), LAMBDA _vwap, _obv :
    With(PyFrom(o, -FLOW_CANDLES), LAMBDA recent :
    With({i \in DOMAIN recent : recent[i].close > recent[i].open}, LAMBDA buys :
    With(buyPct(SumI([i \in DOMAIN recent |-> IF i \in buys THEN recent[i].volume ELSE 0]),
                SumI([i \in DOMAIN recent |-> IF i \in buys THEN 0 ELSE recent[i].volume])),
         LAMBDA buy_pct :
        [vwap |-> RoundPrice(_vwap, 6),
         price_vs_vwap |-> IF RGt(Last(c), _vwap) THEN "above" ELSE "below",
         obv_trend |-> _obv,
         vol_ratio |-> RRound(volume_ratio(v), 2),
         vol_spike |-> is_volume_spike(v),
         vol_trend |-> volume_trend(v),
         buy_pct |-> buy_pct,
         sell_pct |-> RRound(RSub(RI(100), buy_pct), 1),
         buy_candles |-> Cardinality(buys),
         sell_candles |-> FLOW_CANDLES - Cardinality(buys),
         flow |-> flowClass(buy_pct, _obv)])))))

\* ------------------------------------------------------------------------
\* analysis_components.py: scenarios.  A trigger text is kept as the list of
\* its parts (<<>> when the default text is used), a target as the prices
\* it names.
\* ------------------------------------------------------------------------

\* a faulty risk:reward: the quotient without the guard current != stop (NaN
\* stands for the division that did not succeed)
bullRRUnguarded(current, target2, stop) ==
    RRound(RDiv(RSub(target2, current), RSub(current, stop)), 1)

\* round((target2 - current) / (current - stop), 1) if current != stop else 0
bullRR(current, target2, stop) ==
    IF ~REq(current, stop)
    THEN RRound(RDiv(RSub(target2, current), RSub(current, stop)), 1)
    ELSE RI(0)

\* a faulty risk:reward of the bearish scenario: measured from the stop
bearRRFromStop(current, target2, stop) ==
    IF ~REq(stop, current)
    THEN RRound(RDiv(RSub(target2, stop), RSub(stop, current)), 1)
    ELSE RI(-1)

\* round(abs(current - target2) / (stop - current), 1) if stop != current else 0
bearRR(current, target2, stop) ==
    IF ~REq(stop, current)
    THEN RRound(RDiv(RAbs(RSub(current, target2)), RSub(stop, current)), 1)
    ELSE RI(0)

\* a faulty probability: one confirmation is not enough for "medium"
scenarioProbabilityStrict(confluence, agrees) ==
    IF confluence >= 2 /\ agrees THEN "high"
    ELSE IF confluence >= 2 THEN "medium"
    ELSE "low"

scenarioProbability(confluence, agrees) ==
    IF confluence >= 2 /\ agrees THEN "high"
    ELSE IF confluence >= 1 THEN "medium"
    ELSE "low"

build_scenarios(ind, lv, tr, fl, pats) ==
    LET current == lv.current
        r1 == lv.r1
        s1 == lv.s1
        atr_val == lv.atr
        rsi_val == ind.rsi
    IN
    With2((IF RLt(rsi_val, RI(45)) THEN <<"rsi">> ELSE <<>>)
          \o (IF fl.price_vs_vwap = "below" THEN <<"vwap">> ELSE <<>>)
          \o (IF RLt(ind.macd_hist, RI(0)) THEN <<"macd">> ELSE <<>>),
          (IF RGt(rsi_val, RI(55)) THEN <<"rsi">> ELSE <<>>)
          \o (IF fl.price_vs_vwap = "above" THEN <<"vwap">> ELSE <<>>)
          \o (IF RGt(ind.macd_hist, RI(0)) THEN <<"macd">> ELSE <<>>),
          LAMBDA bull_parts, bear_parts :
    With2(RRound(RSub(current, atr_val), 6), RRound(RAdd(current, atr_val), 6),
          LAMBDA bull_stop, bear_stop :
    With2(RRound(RAdd(current, RMul(atr_val, <<3, 2>>)), 6),
          RRound(RSub(current, RMul(atr_val, <<3, 2>>)), 6),
          LAMBDA bull_target1, bear_target1 :
        << [label |-> "BULLISH",
            trigger |-> bull_parts,
            target |-> <<bull_target1, r1>>,
            stop |-> <<bull_stop>>,
            rr_ratio |-> bullRR(current, r1, bull_stop),
            probability |-> scenarioProbability(Len(bull_parts),
                                                tr.overall \in {"bullish", "lean_bullish"}),
            confluence |-> Len(bull_parts)],
           [label |-> "BEARISH",
            trigger |-> bear_parts,
            target |-> <<bear_target1, s1>>,
            stop |-> <<bear_stop>>,
            rr_ratio |-> bearRR(current, s1, bear_stop),
            probability |-> scenarioProbability(Len(bear_parts),
                                                tr.overall \in {"bearish", "lean_bearish"}),
            confluence |-> Len(bear_parts)],
           [label |-> "RANGE-BOUND",
            trigger |-> <<"range">>,
            target |-> <<s1, r1>>,
            stop |-> <<RRound(RSub(s1, atr_val), 2), RRound(RAdd(r1, atr_val), 2)>>,
            rr_ratio |-> IF ~REq(atr_val, RI(0))
                         THEN RRound(RDiv(RSub(r1, s1), atr_val), 1) ELSE RI(0),
            probability |-> IF RLt(ind.adx, RI(20)) THEN "high"
                            ELSE IF RLt(ind.adx, RI(25)) THEN "medium" ELSE "low",
            confluence |-> IF RLt(ind.adx, RI(25)) THEN 1 ELSE 0] >>)))

\* ------------------------------------------------------------------------
\* signal_engine.py
\* ------------------------------------------------------------------------

\* a faulty clamp that keeps state: once a run of the engine has completed it
\* returns the lower limit
_clampStateful(val, lo, hi) ==
    IF "build_scenarios" \in returned THEN lo
    ELSE IF RGt(lo, IF RLt(val, hi) THEN val ELSE hi) THEN lo
    ELSE IF RLt(val, hi) THEN val ELSE hi

\* max(lo, min(hi, val))
_clamp(val, lo, hi) == RMax(lo, RMin(hi, val))

trendBase(overall) ==
    CASE overall = "bullish" -> RI(25)
      [] overall = "lean_bullish" -> RI(12)
      [] overall = "lean_bearish" -> RI(-12)
      [] overall = "bearish" -> RI(-25)
      [] OTHER -> RI(0)

score_trend(tr) ==
    LET base == trendBase(tr.overall)
        dirs == {tr.primary.direction, tr.tf_1h.direction, tr.tf_4h.direction}
    IN  IF \A d \in dirs : HasUp(d) THEN RMin(RAdd(base, RI(5)), RI(25))
        ELSE IF \A d \in dirs : HasDown(d) THEN RMax(RSub(base, RI(5)), RI(-25))
        ELSE base

\* a faulty momentum score: the MACD contribution is not capped
scoreMomentumUncapped(ind) ==
    LET fromRsi == IF RGt(ind.rsi, RI(70)) THEN RI(-8)
                   ELSE IF RGt(ind.rsi, RI(55)) THEN RI(6)
                   ELSE IF RLt(ind.rsi, RI(30)) THEN RI(8)
                   ELSE IF RLt(ind.rsi, RI(45)) THEN RI(-6)
                   ELSE RI(0)
        fromStoch == IF RGt(ind.stoch_k, RI(80)) /\ RGt(ind.stoch_d, RI(80)) THEN RI(-4)
                     ELSE IF RLt(ind.stoch_k, RI(20)) /\ RLt(ind.stoch_d, RI(20)) THEN RI(4)
                     ELSE IF RGt(ind.stoch_k, ind.stoch_d) THEN RI(2)
                     ELSE RI(-2)
    IN  _clamp(RAdd(RAdd(fromRsi, RMul(ind.macd_hist, RI(500))), fromStoch),
               RI(-25), RI(25))

score_momentum(ind) ==
    LET fromRsi == IF RGt(ind.rsi, RI(70)) THEN RI(-8)
                   ELSE IF RGt(ind.rsi, RI(55)) THEN RI(6)
                   ELSE IF RLt(ind.rsi, RI(30)) THEN RI(8)
                   ELSE IF RLt(ind.rsi, RI(45)) THEN RI(-6)
                   ELSE RI(0)
        hist == ind.macd_hist
        fromMacd == With(RMul(hist, RI(500)), LAMBDA scaled :
                        IF RGt(hist, RI(0)) THEN RMin(scaled, RI(8))
                        ELSE RMax(scaled, RI(-8)))
        k == ind.stoch_k
        d == ind.stoch_d
        fromStoch == IF RGt(k, RI(80)) /\ RGt(d, RI(80)) THEN RI(-4)
                     ELSE IF RLt(k, RI(20)) /\ RLt(d, RI(20)) THEN RI(4)
                     ELSE IF RGt(k, d) THEN RI(2)
                     ELSE RI(-2)
    IN  _clamp(RAdd(RAdd(fromRsi, fromMacd), fromStoch), RI(-25), RI(25))

flowBase(f) ==
    CASE f = "strong_inflow" -> RI(18)
      [] f = "inflow" -> RI(10)
      [] f = "outflow" -> RI(-10)
      [] f = "strong_outflow" -> RI(-18)
      [] OTHER -> RI(0)

score_volume(fl) ==
    _clamp(RAdd(flowBase(fl.flow),
                IF fl.vol_spike
                THEN IF RGt(fl.buy_pct, RI(55)) THEN RI(2)
                     ELSE IF RLt(fl.buy_pct, RI(45)) THEN RI(-2) ELSE RI(0)
                ELSE RI(0)),
           RI(-20), RI(20))

score_levels(ind, lv) ==
    LET fromVwap == IF RGt(ind.price_vs_vwap, RI(0)) THEN RI(4) ELSE RI(-4)
        pct_b == ind.bb_pct_b
        fromBands == IF RGt(pct_b, <<9, 10>>) THEN RI(-4)
                     ELSE IF RLt(pct_b, <<1, 10>>) THEN RI(4)
                     ELSE IF RGt(pct_b, <<1, 2>>) THEN RI(2)
                     ELSE RI(-2)
        rp == lv.range_position
        fromRange == IF RGt(rp, RI(85)) THEN RI(-4)
                     ELSE IF RLt(rp, RI(15)) THEN RI(4) ELSE RI(0)
    IN  _clamp(RAdd(RAdd(fromVwap, fromBands), fromRange), RI(-15), RI(15))

\* weight * recency * 0.8, signed by the bias
patternContribution(p) ==
    With(RMul(RI(p.strength * Max(1, 5 - p.bars_ago)), <<4, 5>>), LAMBDA c :
        IF p.bias = "bullish" THEN c
        ELSE IF p.bias = "bearish" THEN RNeg(c) ELSE RI(0))

score_patterns(pats) ==
    _clamp(SumR([i \in DOMAIN pats |-> patternContribution(pats[i])]), RI(-15), RI(15))

\* a faulty verdict: the thresholds taken strictly
signalVerdictStrict(score) ==
    IF RGt(score, RI(60)) THEN "Strong Buy"
    ELSE IF RGt(score, RI(30)) THEN "Buy"
    ELSE IF RGt(score, RI(10)) THEN "Lean Bullish"
    ELSE IF RLt(score, RI(-60)) THEN "Strong Sell"
    ELSE IF RLt(score, RI(-30)) THEN "Sell"
    ELSE IF RLt(score, RI(-10)) THEN "Lean Bearish"
    ELSE "Neutral"

\* the verdict of the clamped score
signalVerdict(score) ==
    IF RGe(score, RI(60)) THEN "Strong Buy"
    ELSE IF RGe(score, RI(30)) THEN "Buy"
    ELSE IF RGe(score, RI(10)) THEN "Lean Bullish"
    ELSE IF RLe(score, RI(-60)) THEN "Strong Sell"
    ELSE IF RLe(score, RI(-30)) THEN "Sell"
    ELSE IF RLe(score, RI(-10)) THEN "Lean Bearish"
    ELSE "Neutral"

\* a faulty confidence: agreement * 20 + abs(score) // 2 without the cap
signalConfidenceUncapped(signs, score) ==
    RI(Max(Cardinality({i \in DOMAIN signs : RGt(signs[i], RI(2))}),
           Cardinality({i \in DOMAIN signs : RLt(signs[i], RI(-2))})) * 20
       + RFloor(RDiv(RAbs(score), RI(2))))

\* min(100, agreement * 20 + abs(score) // 2)
signalConfidence(signs, score) ==
    LET positive == Cardinality({i \in DOMAIN signs : RGt(signs[i], RI(2))})
        negative == Cardinality({i \in DOMAIN signs : RLt(signs[i], RI(-2))})
        agreement == Max(positive, negative)
    IN  RMin(RI(100), RI(agreement * 20 + RFloor(RDiv(RAbs(score), RI(2)))))

\* components are the five scores t, m, v, l, p in this order
compute_signal(ind, lv, tr, fl, pats) ==
    With(<<score_trend(tr), score_momentum(ind), score_volume(fl), score_levels(ind, lv),
           score_patterns(pats)>>, LAMBDA components :
    With(_clamp(SumR(components), RI(-100), RI(100)), LAMBDA score :
        [score |-> RRound(score, 1),
         verdict |-> signalVerdict(score),
         confidence |-> RI(RoundHalfEven(signalConfidence(components, score))),
         breakdown |-> [trend |-> RRound(components[1], 1),
                        momentum |-> RRound(components[2], 1),
                        volume |-> RRound(components[3], 1),
                        levels |-> RRound(components[4], 1),
                        patterns |-> RRound(components[5], 1)]]))

\* ------------------------------------------------------------------------
\* Inputs: candle series
\* ------------------------------------------------------------------------

Candle(o, h, l, c, v) == [open |-> o, high |-> h, low |-> l, close |-> c, volume |-> v]

\* the candles of the series one function is called on (prices in ticks): a
\* flat candle without volume, a wide doji, a falling candle, a hammer and a
\* wider doji
Candles ==
    { Candle(1000, 1000, 1000, 1000, 0),
      Candle(1100, 1150, 900, 1100, 10),
      Candle(1050, 1050, 950, 1000, 20),
      Candle(1000, 1050, 800, 1050, 10),
      Candle(1000, 1200, 800, 1000, 20) }

\* the candles of the series a whole run of the engine is given: a flat
\* candle of a very low price and without volume, a wide doji, a rising candle
\* and a hammer
RunCandles ==
    { Candle(80, 80, 80, 80, 0),
      Candle(1100, 1150, 900, 1100, 10),
      Candle(1000, 1200, 1000, 1150, 30),
      Candle(1000, 1050, 800, 1050, 10) }

Tails(cs, n) == UNION {[1..k -> cs] : k \in 1..n}

\* k identical candles of pads (k in padLens) followed by up to maxTail free
\* ones of cs
PaddedSeries(pads, cs, padLens, maxTail) ==
    {Repeat(c, k) \o t : c \in pads, k \in padLens, t \in Tails(cs, maxTail)}

\* the candles a series given to one function is padded with
PadCandles == {Candle(1000, 1000, 1000, 1000, 0), Candle(1100, 1150, 900, 1100, 10)}

\* the series of the higher timeframes: one candle, or three rising ones
FlatSeries == <<Candle(1000, 1000, 1000, 1000, 0)>>

RisingSeries ==
    <<Candle(1000, 1000, 1000, 1000, 5), Candle(1000, 1100, 1000, 1100, 5),
      Candle(1100, 1200, 1100, 1200, 5)>>

\* the 1h and the 4h series of a run
HigherPairs ==
    {<<FlatSeries, FlatSeries>>, <<RisingSeries, FlatSeries>>, <<RisingSeries, RisingSeries>>}

\* ------------------------------------------------------------------------
\* main.py: analyze_coin_raw, one action per call of the engine
\* ------------------------------------------------------------------------

Init ==
    /\ ServicesIdle
    /\ ohlcv \in PaddedSeries(RunCandles, RunCandles, {0, PadShort, PadLong}, MaxRunTail)
    /\ \E p \in HigherPairs : ohlcv_1h = p[1] /\ ohlcv_4h = p[2]
    /\ indicators = <<>>
    /\ patterns = <<>>
    /\ levels = <<>>
    /\ trend = <<>>
    /\ flow = <<>>
    /\ signal = <<>>
    /\ scenarios = <<>>
    /\ result = <<>>
    /\ raised = "none"
    /\ returned = {}
    /\ pc = "compute_all"

\* a faulty return: the callee has consumed the latest candle of its series
ReturnedConsuming(name, next) ==
    /\ returned' = returned \cup {name}
    /\ pc' = next
    /\ ohlcv' = SubSeq(ohlcv, 1, Len(ohlcv) - 1)
    /\ UNCHANGED <<ohlcv_1h, ohlcv_4h, result, raised>>
    /\ UNCHANGED svcVars

Returned(name, next) ==
    /\ returned' = returned \cup {name}
    /\ pc' = next
    /\ UNCHANGED <<ohlcv, ohlcv_1h, ohlcv_4h, result, raised>>
    /\ UNCHANGED svcVars

ComputeAll ==
    /\ pc = "compute_all"
    /\ indicators' = compute_all(ohlcv)
    /\ Returned("compute_all", "detect_patterns")
    /\ UNCHANGED <<patterns, levels, trend, flow, signal, scenarios>>

DetectPatterns ==
    /\ pc = "detect_patterns"
    /\ patterns' = detect_patterns(ohlcv)
    /\ Returned("detect_patterns", "find_key_levels")
    /\ UNCHANGED <<indicators, levels, trend, flow, signal, scenarios>>

FindKeyLevels ==
    /\ pc = "find_key_levels"
    /\ levels' = find_key_levels(ohlcv)
    /\ Returned("find_key_levels", "analyze_trend_mtf")
    /\ UNCHANGED <<indicators, patterns, trend, flow, signal, scenarios>>

AnalyzeTrendMtf ==
    /\ pc = "analyze_trend_mtf"
    /\ trend' = analyze_trend_mtf(ohlcv, ohlcv_1h, ohlcv_4h)
    /\ Returned("analyze_trend_mtf", "analyze_money_flow")
    /\ UNCHANGED <<indicators, patterns, levels, flow, signal, scenarios>>

\* the IndexError of analyze_money_flow is not caught by analyze_coin_raw
AnalyzeMoneyFlow ==
    /\ pc = "analyze_money_flow"
    /\ IF analyze_money_flow_raises(ohlcv)
       THEN /\ raised' = "IndexError"
            /\ pc' = "raised"
            /\ UNCHANGED <<ohlcv, ohlcv_1h, ohlcv_4h, flow, result, returned>>
       ELSE /\ flow' = analyze_money_flow(ohlcv)
            /\ Returned("analyze_money_flow", "compute_signal")
    /\ UNCHANGED <<indicators, patterns, levels, trend, signal, scenarios>>
    /\ UNCHANGED svcVars

ComputeSignal ==
    /\ pc = "compute_signal"
    /\ signal' = compute_signal(indicators, levels, trend, flow, patterns)
    /\ Returned("compute_signal", "build_scenarios")
    /\ UNCHANGED <<indicators, patterns, levels, trend, flow, scenarios>>

BuildScenarios ==
    /\ pc = "build_scenarios"
    /\ scenarios' = build_scenarios(indicators, levels, trend, flow, patterns)
    /\ Returned("build_scenarios", "done")
    /\ UNCHANGED <<indicators, patterns, levels, trend, flow, signal>>

Next ==
    \/ ComputeAll
    \/ DetectPatterns
    \/ FindKeyLevels
    \/ AnalyzeTrendMtf
    \/ AnalyzeMoneyFlow
    \/ ComputeSignal
    \/ BuildScenarios

Spec == Init /\ [][Next]_vars

\* ------------------------------------------------------------------------
\* One function of the engine called on a candle series
\* ------------------------------------------------------------------------

\* n flat candles whose closes alternate between base and base + step, all of
\* volume vol
Alternating(n, base, step, vol) ==
    [i \in 1..n |->
        LET c == IF i % 2 = 0 THEN base + step ELSE base IN Candle(c, c, c, c, vol)]

InitSeries ==
    /\ ServicesIdle
    /\ ohlcv \in PaddedSeries(PadCandles, Candles, {0, PadLong}, MaxTail)
    /\ ohlcv_1h = <<>>
    /\ ohlcv_4h = <<>>
    /\ indicators = <<>>
    /\ patterns = <<>>
    /\ levels = <<>>
    /\ trend = <<>>
    /\ flow = <<>>
    /\ signal = <<>>
    /\ scenarios = <<>>
    /\ result = <<>>
    /\ raised = "none"
    /\ returned = {}
    /\ pc = "call"

Called(name) ==
    /\ pc = "call"
    /\ pc' = name
    /\ returned' = returned \cup {name}
    /\ UNCHANGED <<ohlcv, ohlcv_1h, ohlcv_4h, indicators, patterns, levels, trend, flow,
                   signal, scenarios, raised>>
    /\ UNCHANGED svcVars

CallFindKeyLevels == Called("find_key_levels") /\ result' = find_key_levels(ohlcv)

CallDetectPatterns == Called("detect_patterns") /\ result' = detect_patterns(ohlcv)

CallBbLast == Called("bb_last") /\ result' = bb_last(RSeq(Closes(ohlcv)))

CallStochasticLast ==
    /\ Called("stochastic_last")
    /\ result' = stochastic_last(RSeq(Highs(ohlcv)), RSeq(Lows(ohlcv)), RSeq(Closes(ohlcv)))

NextSeries ==
    \/ CallFindKeyLevels
    \/ CallDetectPatterns
    \/ CallBbLast
    \/ CallStochasticLast

SpecSeries == InitSeries /\ [][NextSeries]_vars

\* ------------------------------------------------------------------------
\* compute_signal and build_scenarios given snapshots as the analysis
\* functions return them.  Only the fields the two functions read are kept.
\* ------------------------------------------------------------------------

IndicatorSnapshot(_rsi, hist, k, d, pvv, pct_b, _adx) ==
    [rsi |-> _rsi, macd_hist |-> hist, stoch_k |-> k, stoch_d |-> d,
     price_vs_vwap |-> pvv, bb_pct_b |-> pct_b, adx |-> _adx]

\* oversold and overbought extremes, the two mild cases, the middle, the
\* values of a short series (no Bollinger band, no %D), and the oversold
\* extreme with a MACD histogram just under the cap of its contribution
\* (0.015999 * 500 = 7.9995)
IndicatorSnapshots ==
    { IndicatorSnapshot(RI(25), <<1, 50>>, RI(10), RI(15), RI(2), <<1, 20>>, RI(30)),
      IndicatorSnapshot(RI(75), <<-1, 50>>, RI(90), RI(85), RI(-2), <<19, 20>>, RI(30)),
      IndicatorSnapshot(RI(60), <<1, 250>>, RI(60), RI(40), RI(1), <<7, 10>>, <<45, 2>>),
      IndicatorSnapshot(RI(40), <<-1, 250>>, RI(40), RI(60), RI(-1), <<3, 10>>, RI(15)),
      IndicatorSnapshot(RI(50), RI(0), RI(50), RI(50), RI(0), <<1, 2>>, RI(25)),
      IndicatorSnapshot(RI(100), RI(0), RI(50), NaN, RI(0), NaN, RI(25)),
      IndicatorSnapshot(RI(25), <<15999, 1000 * 1000>>, RI(10), RI(15), RI(2), <<1, 20>>, RI(30)) }

LevelSnapshot(current, r1, s1, _atr, rp) ==
    [current |-> current, r1 |-> r1, s1 |-> s1, atr |-> _atr, range_position |-> rp]

\* prices are multiples of 0.000001 as find_key_levels rounds them
Micro(n) == Norm(n, 1000 * 1000)

LevelSnapshots ==
    { LevelSnapshot(Micro(100), Micro(115), Micro(90), Micro(10), RI(50)),
      LevelSnapshot(Micro(100), Micro(102), Micro(98), RI(0), RI(50)),
      LevelSnapshot(Micro(100), Micro(115), Micro(90), Micro(7), RI(95)),
      LevelSnapshot(Micro(100), Micro(120), Micro(80), Micro(4), RI(10)),
      LevelSnapshot(Micro(8), Micro(8), Micro(8), RI(0), RI(50)) }

Timeframe(direction, momentum) == [direction |-> direction, momentum |-> momentum]

\* the report analyze_trend_mtf makes of three timeframes
TrendSnapshot(tfs) ==
    With(SumR([k \in 1..3 |-> tfScore(tfs[k])]), LAMBDA score :
        [overall |-> trendOverall(score),
         confluence_score |-> RRound(score, 1),
         primary |-> tfs[1],
         tf_1h |-> tfs[2],
         tf_4h |-> tfs[3]])

TrendSnapshots ==
    { TrendSnapshot(tfs) : tfs \in
        { <<Timeframe("strong_up", "bullish"), Timeframe("up", "bullish"),
            Timeframe("up", "overbought")>>,
          <<Timeframe("strong_down", "bearish"), Timeframe("down", "bearish"),
            Timeframe("down", "oversold")>>,
          <<Timeframe("up", "neutral"), Timeframe("up", "neutral"),
            Timeframe("sideways", "neutral")>>,
          <<Timeframe("up", "neutral"), Timeframe("sideways", "neutral"),
            Timeframe("sideways", "neutral")>>,
          <<Timeframe("sideways", "neutral"), Timeframe("sideways", "neutral"),
            Timeframe("sideways", "neutral")>>,
          <<Timeframe("down", "neutral"), Timeframe("sideways", "neutral"),
            Timeframe("sideways", "neutral")>> } }

\* the report analyze_money_flow makes of a buy share, an OBV trend, a
\* volume spike and the side of VWAP the price is on
FlowSnapshot(buy_pct, _obv, spike, side) ==
    [flow |-> flowClass(buy_pct, _obv), obv_trend |-> _obv, vol_spike |-> spike,
     buy_pct |-> buy_pct, price_vs_vwap |-> side]

FlowSnapshots ==
    { FlowSnapshot(RI(70), "rising", TRUE, "above"),
      FlowSnapshot(RI(30), "falling", TRUE, "below"),
      FlowSnapshot(RI(50), "flat", FALSE, "above"),
      FlowSnapshot(RI(58), "falling", FALSE, "below"),
      FlowSnapshot(RI(42), "rising", TRUE, "above"),
      FlowSnapshot(RI(50), "neutral", FALSE, "below") }

\* a match as detect_patterns returns it, of a series of 11 candles
PatternSnapshot(name, bias, strength, i) ==
    [name |-> name, bias |-> bias, strength |-> strength, index |-> i, bars_ago |-> 10 - i]

PatternMatches ==
    { PatternSnapshot("Bullish Engulfing", "bullish", 3, 10),
      PatternSnapshot("Bearish Engulfing", "bearish", 3, 10),
      PatternSnapshot("Hammer", "bullish", 2, 9),
      PatternSnapshot("Shooting Star", "bearish", 2, 8),
      PatternSnapshot("Doji", "neutral", 1, 9) }

\* the lists detect_patterns can return: latest bar first, one match per
\* (index, bias)
PatternLists ==
    { ps \in UNION {[1..k -> PatternMatches] : k \in 0..MaxPatterns} :
        \A i, j \in DOMAIN ps :
            i < j => /\ ps[i].index >= ps[j].index
                     /\ <<ps[i].index, ps[i].bias>> # <<ps[j].index, ps[j].bias>> }

\* the indicators and the money flow of one series agree on the side of VWAP
\* the price is on
SameSide(ind, fl) ==
    /\ RGt(ind.price_vs_vwap, RI(0)) => fl.price_vs_vwap = "above"
    /\ RLt(ind.price_vs_vwap, RI(0)) => fl.price_vs_vwap = "below"

InitSignal ==
    /\ ServicesIdle
    /\ ohlcv = <<>>
    /\ ohlcv_1h = <<>>
    /\ ohlcv_4h = <<>>
    /\ indicators \in IndicatorSnapshots
    /\ patterns \in PatternLists
    /\ levels \in LevelSnapshots
    /\ trend \in TrendSnapshots
    /\ flow \in FlowSnapshots
    /\ SameSide(indicators, flow)
    /\ signal = <<>>
    /\ scenarios = <<>>
    /\ result = <<>>
    /\ raised = "none"
    /\ returned = {"compute_all", "detect_patterns", "find_key_levels", "analyze_trend_mtf",
                   "analyze_money_flow"}
    /\ pc = "compute_signal"

NextSignal ==
    \/ ComputeSignal
    \/ BuildScenarios

SpecSignal == InitSignal /\ [][NextSignal]_vars

\* ------------------------------------------------------------------------
\* obv_trend called on a series whose closes alternate
\* ------------------------------------------------------------------------

AlternatingSeries ==
    {Alternating(n, base, step, vol) :
        n \in AltLenMin..(AltLenMin + AltLenSpan), base \in {100, 1000},
        step \in {-10, -1, 1, 10}, vol \in {1, 1000, 5000}}

InitObv ==
    /\ ServicesIdle
    /\ ohlcv \in AlternatingSeries
    /\ ohlcv_1h = <<>>
    /\ ohlcv_4h = <<>>
    /\ indicators = <<>>
    /\ patterns = <<>>
    /\ levels = <<>>
    /\ trend = <<>>
    /\ flow = <<>>
    /\ signal = <<>>
    /\ scenarios = <<>>
    /\ result = <<>>
    /\ raised = "none"
    /\ returned = {}
    /\ pc = "call"

CallObvTrend ==
    /\ Called("obv_trend")
    /\ result' = obv_trend(RSeq(Closes(ohlcv)), RSeq(Volumes(ohlcv)))

NextObv == CallObvTrend

SpecObv == InitObv /\ [][NextObv]_vars

\* ------------------------------------------------------------------------
\* The series-returning indicators called on series of every length from one
\* candle to a full Bollinger window and beyond
\* ------------------------------------------------------------------------

\* the series-returning indicators, each called on the series
seriesOf(h, l, c, v) ==
    [sma |-> sma(c, BB_PERIOD),
     ema |-> ema(c, EMA_FAST),
     rsi |-> rsi(c, RSI_PERIOD),
     atr |-> atr(h, l, c, ATR_PERIOD),
     bollinger_bands |-> bollinger_bands(c),
     stochastic |-> stochastic(h, l, c),
     macd |-> macd(c),
     obv |-> obv(c, v)]

InitIndicators ==
    /\ ServicesIdle
    /\ ohlcv \in PaddedSeries(PadCandles, Candles, 0..PadLong, MaxRunTail)
    /\ ohlcv_1h = <<>>
    /\ ohlcv_4h = <<>>
    /\ indicators = <<>>
    /\ patterns = <<>>
    /\ levels = <<>>
    /\ trend = <<>>
    /\ flow = <<>>
    /\ signal = <<>>
    /\ scenarios = <<>>
    /\ result = <<>>
    /\ raised = "none"
    /\ returned = {}
    /\ pc = "call"

CallSeriesIndicators ==
    /\ Called("series")
    /\ result' = seriesOf(RSeq(Highs(ohlcv)), RSeq(Lows(ohlcv)), RSeq(Closes(ohlcv)),
                          RSeq(Volumes(ohlcv)))

NextIndicators == CallSeriesIndicators

SpecIndicators == InitIndicators /\ [][NextIndicators]_vars

\* ------------------------------------------------------------------------
\* analyze_trend_mtf called on three series, and score_trend on its report
\* ------------------------------------------------------------------------

\* the series of a timeframe: one flat candle; nine flat candles and a higher
\* close; nine wide candles and a lower close, or the same close; 21 flat
\* candles and a higher close (SMA9 > SMA21 > SMA50)
TrendSeries ==
    { <<Candle(1000, 1000, 1000, 1000, 0)>>,
      Repeat(Candle(1000, 1000, 1000, 1000, 0), PadShort)
          \o <<Candle(1100, 1150, 900, 1100, 10)>>,
      Repeat(Candle(1000, 1000, 1000, 1000, 0), PadShort)
          \o <<Candle(1000, 1050, 800, 1050, 10)>>,
      Repeat(Candle(1100, 1150, 900, 1100, 10), PadShort)
          \o <<Candle(1050, 1050, 950, 1000, 20)>>,
      Repeat(Candle(1100, 1150, 900, 1100, 10), PadShort + 1),
      Repeat(Candle(1000, 1000, 1000, 1000, 0), PadLong + 2)
          \o <<Candle(1100, 1150, 900, 1100, 10)>> }

InitTrend ==
    /\ ServicesIdle
    /\ ohlcv \in TrendSeries
    /\ ohlcv_1h \in TrendSeries
    /\ ohlcv_4h \in TrendSeries
    /\ indicators = <<>>
    /\ patterns = <<>>
    /\ levels = <<>>
    /\ trend = <<>>
    /\ flow = <<>>
    /\ signal = <<>>
    /\ scenarios = <<>>
    /\ result = <<>>
    /\ raised = "none"
    /\ returned = {}
    /\ pc = "analyze_trend_mtf"

CallAnalyzeTrendMtf ==
    /\ pc = "analyze_trend_mtf"
    /\ trend' = analyze_trend_mtf(ohlcv, ohlcv_1h, ohlcv_4h)
    /\ pc' = "score_trend"
    /\ returned' = returned \cup {"analyze_trend_mtf"}
    /\ UNCHANGED <<ohlcv, ohlcv_1h, ohlcv_4h, indicators, patterns, levels, flow, signal,
                   scenarios, result, raised>>
    /\ UNCHANGED svcVars

CallScoreTrend ==
    /\ pc = "score_trend"
    /\ result' = score_trend(trend)
    /\ pc' = "done"
    /\ returned' = returned \cup {"score_trend"}
    /\ UNCHANGED <<ohlcv, ohlcv_1h, ohlcv_4h, indicators, patterns, levels, trend, flow,
                   signal, scenarios, raised>>
    /\ UNCHANGED svcVars

NextTrend ==
    \/ CallAnalyzeTrendMtf
    \/ CallScoreTrend

SpecTrend == InitTrend /\ [][NextTrend]_vars

\* ------------------------------------------------------------------------
\* analyze_money_flow called on a series
\* ------------------------------------------------------------------------

\* the kinds of bar a flow series is made of: a bar rising from the previous
\* close, a bar falling from it, a doji above it (a higher close that is not
\* above its open), a rising bar that opens far below it (a lower close that
\* is above its open), and a flat bar without volume
BarKinds == {"up", "down", "doji_up", "dip_up", "quiet"}

BarStep == 100
FirstClose == 5000
BarVolume == 10

NextBar(prev, kind) ==
    CASE kind = "up" -> Candle(prev, prev + BarStep, prev, prev + BarStep, BarVolume)
      [] kind = "down" -> Candle(prev, prev, prev - BarStep, prev - BarStep, BarVolume)
      [] kind = "doji_up" ->
             Candle(prev + BarStep, prev + BarStep, prev + BarStep, prev + BarStep, BarVolume)
      [] kind = "dip_up" ->
             Candle(prev - 2 * BarStep, prev - BarStep, prev - 2 * BarStep, prev - BarStep,
                    BarVolume)
      [] OTHER -> Candle(prev, prev, prev, prev, 0)

RECURSIVE BarsOf(_, _)
BarsOf(prev, kinds) ==
    IF kinds = <<>> THEN <<>>
    ELSE With(NextBar(prev, Head(kinds)), LAMBDA bar :
             <<bar>> \o BarsOf(bar.close, Tail(kinds)))

\* n bars of the kinds a and b: in turns, or k of a and then the rest of b
InTurns(a, b, n) == [i \in 1..n |-> IF i % 2 = 1 THEN a ELSE b]
SplitAt(a, b, k, n) == [i \in 1..n |-> IF i <= k THEN a ELSE b]

\* the bars before the recent ones
FlowHead == 11
\* the bars of a series too short for analyze_money_flow
FlowShort == 8

FlowSeries ==
    { BarsOf(FirstClose, InTurns(h[1], h[2], FlowHead) \o recent) :
        h \in {<<"up", "doji_up">>, <<"down", "dip_up">>, <<"quiet", "quiet">>,
                <<"up", "down">>},
        recent \in {InTurns(a, b, FLOW_CANDLES) : a, b \in BarKinds}
            \cup {SplitAt(a, b, k, FLOW_CANDLES) : a, b \in BarKinds, k \in {4, 6}} }
    \cup { BarsOf(FirstClose, InTurns(a, b, FlowShort)) : a, b \in BarKinds }

InitFlow ==
    /\ ServicesIdle
    /\ ohlcv \in FlowSeries
    /\ ohlcv_1h = <<>>
    /\ ohlcv_4h = <<>>
    /\ indicators = <<>>
    /\ patterns = <<>>
    /\ levels = <<>>
    /\ trend = <<>>
    /\ flow = <<>>
    /\ signal = <<>>
    /\ scenarios = <<>>
    /\ result = <<>>
    /\ raised = "none"
    /\ returned = {}
    /\ pc = "analyze_money_flow"

NextFlow == AnalyzeMoneyFlow

SpecFlow == InitFlow /\ [][NextFlow]_vars

\* ------------------------------------------------------------------------
\* _cluster_levels called on the highs of a series, as find_key_levels does
\* ------------------------------------------------------------------------

\* the highs: 1015 is the last price within CLUSTER_TOLERANCE of 1000, 1016
\* the first one outside, and 1030 is within it of 1015 and of 1016
ClusterHighs == {1000, 1015, 1016, 1030, 1200}

MaxPrices == 4

InitCluster ==
    /\ ServicesIdle
    /\ ohlcv \in UNION {[1..n -> {Candle(1000, p, 1000, 1000, 1) : p \in ClusterHighs}]
                         : n \in 0..MaxPrices}
    /\ ohlcv_1h = <<>>
    /\ ohlcv_4h = <<>>
    /\ indicators = <<>>
    /\ patterns = <<>>
    /\ levels = <<>>
    /\ trend = <<>>
    /\ flow = <<>>
    /\ signal = <<>>
    /\ scenarios = <<>>
    /\ result = <<>>
    /\ raised = "none"
    /\ returned = {}
    /\ pc = "call"

CallClusterLevels ==
    /\ Called("_cluster_levels")
    /\ result' = _cluster_levels(PyFrom(Highs(ohlcv), -LEVEL_LOOKBACK), CLUSTER_TOLERANCE)

NextCluster == CallClusterLevels

SpecCluster == InitCluster /\ [][NextCluster]_vars

\* ------------------------------------------------------------------------
\* analyze_coin_raw called again and again in one process.  The functions of
\* the engine keep nothing between calls: every list they build is a local,
\* and config is only read.  returned is the history of the process, result
\* the first call's arguments and what it came to.
\* ------------------------------------------------------------------------

\* the primary series of the calls: one or two candles, or ten or eleven
AgainSeries ==
    PaddedSeries({Candle(80, 80, 80, 80, 0), Candle(1100, 1150, 900, 1100, 10)},
                 {Candle(80, 80, 80, 80, 0), Candle(1000, 1200, 1000, 1150, 30),
                  Candle(1000, 1050, 800, 1050, 10)},
                 {0, PadShort}, 1)

\* what a call of analyze_coin_raw was given and what it came to
CallRecord ==
    [input |-> <<ohlcv, ohlcv_1h, ohlcv_4h>>,
     output |-> <<indicators, patterns, levels, trend, flow, signal, scenarios>>,
     raised |-> raised]

InitAgain ==
    /\ ServicesIdle
    /\ ohlcv \in AgainSeries
    /\ \E p \in HigherPairs : ohlcv_1h = p[1] /\ ohlcv_4h = p[2]
    /\ indicators = <<>>
    /\ patterns = <<>>
    /\ levels = <<>>
    /\ trend = <<>>
    /\ flow = <<>>
    /\ signal = <<>>
    /\ scenarios = <<>>
    /\ result = <<>>
    /\ raised = "none"
    /\ returned = {}
    /\ pc = "compute_all"

\* the call has ended (returned or raised); the next call of analyze_coin_raw
\* starts with fresh locals, on the same series or on another
CallAgain ==
    /\ pc \in {"done", "raised"}
    /\ result' = IF result = <<>> THEN CallRecord ELSE result
    /\ ohlcv' \in AgainSeries
    /\ indicators' = <<>>
    /\ patterns' = <<>>
    /\ levels' = <<>>
    /\ trend' = <<>>
    /\ flow' = <<>>
    /\ signal' = <<>>
    /\ scenarios' = <<>>
    /\ raised' = "none"
    /\ pc' = "compute_all"
    /\ UNCHANGED <<ohlcv_1h, ohlcv_4h, returned>>
    /\ UNCHANGED svcVars

NextAgain ==
    \/ ComputeAll
    \/ DetectPatterns
    \/ FindKeyLevels
    \/ AnalyzeTrendMtf
    \/ AnalyzeMoneyFlow
    \/ ComputeSignal
    \/ BuildScenarios
    \/ CallAgain

SpecAgain == InitAgain /\ [][NextAgain]_vars

\* ------------------------------------------------------------------------
\* multi_exchange_client.py and crypto_analyzer.py: the singleton client.
\* A coroutine runs without interruption from one await to the next, so an
\* action is the code between two awaits.  The last element of _active is
\* the singleton; close() makes the next MultiExchangeClient() construct a
\* new instance, which the model constructs at the close.
\* ------------------------------------------------------------------------

CACHE_TTL_SECONDS == 45

DEFAULT_TIMEFRAME == "15m"

\* the fetch_multi_tf calls of a behaviour, and the instances of the client
MaxGathers == 2
MaxInstances == 2

\* a faulty retry test: no attempt is repeated
retriesLeftNone(attempt) == FALSE

\* `if attempt < 2` of the loop `for attempt in range(3)`
retriesLeft(attempt) == attempt < 2

\* a faulty expiry test: an entry is still returned when its age is the ttl
cacheGetAtTtl(c, key, t) ==
    IF key \in DOMAIN c /\ t - c[key][2] <= CACHE_TTL_SECONDS THEN c[key][1] ELSE "None"

\* CacheManager.get(key) at the time t: the data, or "None"
cacheGet(c, key, t) ==
    IF key \in DOMAIN c /\ t - c[key][2] < CACHE_TTL_SECONDS THEN c[key][1] ELSE "None"

\* the cache after CacheManager.get(key) at the time t: an expired entry is deleted
cacheAfterGet(c, key, t) ==
    IF key \in DOMAIN c /\ ~(t - c[key][2] < CACHE_TTL_SECONDS)
    THEN [k \in DOMAIN c \ {key} |-> c[k]]
    ELSE c

\* the cache after CacheManager.set(key, data) at the time t
cacheAfterSet(c, key, data, t) ==
    [k \in DOMAIN c \cup {key} |-> IF k = key THEN <<data, t>> ELSE c[k]]

Singleton == Len(_active)

\* the load_markets call that the coroutine of tasks[t] is waiting for
PendingLoad(t) == CHOOSE l \in loads : l.by = t /\ l.outcome = "pending"

\* the log after the coroutine of tasks[t] has called load_markets of an exchange
Issued(log, t, exchange) ==
    log \cup {[self |-> tasks[t].self, exchange |-> exchange, by |-> t,
               n |-> Cardinality({l \in log : l.by = t}) + 1, outcome |-> "pending"]}

\* the log after that call has raised
FailLoad(t) ==
    (loads \ {PendingLoad(t)}) \cup {[PendingLoad(t) EXCEPT !.outcome = "failed"]}

\* the log after the _ensure_markets call of tasks[t] has returned or raised
EndCall(t) == {l \in loads : l.by # t}

InitClient ==
    /\ ServicesIdle
    /\ EngineIdle
    /\ pc = "client"

\* fetch_multi_tf(symbol, primary_tf): asyncio.gather starts three
\* fetch_ohlcv coroutines on the singleton; the caller has awaited the
\* gather before it
FetchMultiTf ==
    /\ \A t \in DOMAIN tasks : tasks[t].pc \in {"returned", "raised"}
    /\ (IF tasks = <<>> THEN 0 ELSE tasks[1].call) < MaxGathers
    /\ \E primary_tf \in {DEFAULT_TIMEFRAME} :
           tasks' = [t \in 1..3 |->
                        [self |-> Singleton,
                         call |-> (IF tasks = <<>> THEN 0 ELSE tasks[1].call) + 1,
                         key |-> <<primary_tf, "1h", "4h">>[t],
                         pc |-> "fetch_ohlcv",
                         attempt |-> 0]]
    /\ loads' = {}
    /\ UNCHANGED <<_active, _markets_loaded, cache, now, user_data, last_set, got, handled>>
    /\ UNCHANGED engineVars

\* fetch_ohlcv up to its first await: the cache lookup, and _ensure_markets
\* up to the first load_markets call, or the call of the exchange's
\* fetch_ohlcv when the markets are loaded
FetchOhlcv(t) ==
    /\ tasks[t].pc = "fetch_ohlcv"
    /\ cache' = IF tasks[t].self = Singleton THEN cacheAfterGet(cache, tasks[t].key, now)
                ELSE cache
    /\ IF tasks[t].self = Singleton /\ cacheGet(cache, tasks[t].key, now) # "None"
       THEN /\ tasks' = [tasks EXCEPT ![t].pc = "returned"]
            /\ UNCHANGED loads
       ELSE IF _markets_loaded[tasks[t].self]
       THEN /\ tasks' = [tasks EXCEPT ![t].pc = "exchange_fetch_ohlcv"]
            /\ UNCHANGED loads
       ELSE /\ tasks' = [tasks EXCEPT ![t].pc = "load_markets", ![t].attempt = 0]
            /\ loads' = Issued(loads, t, _active[tasks[t].self])
    /\ UNCHANGED <<_active, _markets_loaded, now, user_data, last_set, got, handled>>
    /\ UNCHANGED engineVars

\* load_markets of the loop returns, or raises: after the third failure
\* _active becomes the fallback and its load_markets is called
LoadMarkets(t, ok) ==
    /\ tasks[t].pc = "load_markets"
    /\ IF ok
       THEN /\ _markets_loaded' = [_markets_loaded EXCEPT ![tasks[t].self] = TRUE]
            /\ tasks' = [tasks EXCEPT ![t].pc = "exchange_fetch_ohlcv", ![t].attempt = 0]
            /\ loads' = EndCall(t)
            /\ UNCHANGED _active
       ELSE IF retriesLeft(tasks[t].attempt)
       THEN /\ tasks' = [tasks EXCEPT ![t].pc = "sleep"]
            /\ loads' = FailLoad(t)
            /\ UNCHANGED <<_active, _markets_loaded>>
       ELSE /\ _active' = [_active EXCEPT ![tasks[t].self] = "KuCoin"]
            /\ tasks' = [tasks EXCEPT ![t].pc = "load_fallback", ![t].attempt = 0]
            /\ loads' = Issued(FailLoad(t), t, "KuCoin")
            /\ UNCHANGED _markets_loaded
    /\ UNCHANGED <<cache, now, user_data, last_set, got, handled>>
    /\ UNCHANGED engineVars

\* asyncio.sleep(2) returns: the next attempt calls load_markets of the
\* exchange that is active now
Sleep(t) ==
    /\ tasks[t].pc = "sleep"
    /\ tasks' = [tasks EXCEPT ![t].pc = "load_markets", ![t].attempt = @ + 1]
    /\ loads' = Issued(loads, t, _active[tasks[t].self])
    /\ UNCHANGED <<_active, _markets_loaded, cache, now, user_data, last_set, got, handled>>
    /\ UNCHANGED engineVars

\* load_markets of the fallback returns, or raises: fetch_ohlcv turns the
\* exception into a ValueError
LoadFallback(t, ok) ==
    /\ tasks[t].pc = "load_fallback"
    /\ loads' = EndCall(t)
    /\ _markets_loaded' = IF ok THEN [_markets_loaded EXCEPT ![tasks[t].self] = TRUE]
                          ELSE _markets_loaded
    /\ tasks' = [tasks EXCEPT ![t].pc = IF ok THEN "exchange_fetch_ohlcv" ELSE "raised"]
    /\ UNCHANGED <<_active, cache, now, user_data, last_set, got, handled>>
    /\ UNCHANGED engineVars

\* fetch_ohlcv of the active exchange returns candles, which are cached and
\* returned, or it raises or returns nothing: ValueError
ExchangeFetchOhlcv(t, ok) ==
    /\ tasks[t].pc = "exchange_fetch_ohlcv"
    /\ tasks' = [tasks EXCEPT ![t].pc = IF ok THEN "returned" ELSE "raised"]
    /\ cache' = IF ok /\ tasks[t].self = Singleton
                THEN cacheAfterSet(cache, tasks[t].key, "data", now)
                ELSE cache
    /\ UNCHANGED <<_active, _markets_loaded, loads, now, user_data, last_set, got, handled>>
    /\ UNCHANGED engineVars

\* close(): the singleton is reset; the coroutines in flight keep their
\* instance
Close ==
    /\ Len(_active) < MaxInstances
    /\ _active' = Append(_active, "Bybit")
    /\ _markets_loaded' = Append(_markets_loaded, FALSE)
    /\ cache' = <<>>
    /\ UNCHANGED <<tasks, loads, now, user_data, last_set, got, handled>>
    /\ UNCHANGED engineVars

NextClient ==
    \/ FetchMultiTf
    \/ \E t \in DOMAIN tasks : FetchOhlcv(t)
    \/ \E t \in DOMAIN tasks, ok \in BOOLEAN : LoadMarkets(t, ok)
    \/ \E t \in DOMAIN tasks : Sleep(t)
    \/ \E t \in DOMAIN tasks, ok \in BOOLEAN : LoadFallback(t, ok)
    \/ \E t \in DOMAIN tasks, ok \in BOOLEAN : ExchangeFetchOhlcv(t, ok)
    \/ Close

SpecClient == InitClient /\ [][NextClient]_vars

\* ------------------------------------------------------------------------
\* cache_manager.py: a CacheManager with the ttl of the client's cache,
\* called at times that the clock of time.time() has reached
\* ------------------------------------------------------------------------

CacheKeys == {"BTC/USDT:15m:200", "BTC/USDT:1h:200"}
CacheData == {"candles", "later candles"}

\* the clock is followed up to MaxNow, in steps of about half the ttl
MaxNow == 92

InitCache ==
    /\ ServicesIdle
    /\ EngineIdle
    /\ pc = "cache"

\* CacheManager.set(key, data)
CacheSet(key, data) ==
    /\ cache' = cacheAfterSet(cache, key, data, now)
    /\ last_set' = [k \in DOMAIN last_set \cup {key} |->
                       IF k = key THEN <<data, now>> ELSE last_set[k]]
    /\ UNCHANGED <<_active, _markets_loaded, tasks, loads, now, user_data, got, handled>>
    /\ UNCHANGED engineVars

\* CacheManager.get(key)
CacheGet(key) ==
    /\ got' = <<key, cacheGet(cache, key, now)>>
    /\ cache' = cacheAfterGet(cache, key, now)
    /\ UNCHANGED <<_active, _markets_loaded, tasks, loads, now, user_data, last_set, handled>>
    /\ UNCHANGED engineVars

\* time passes between two calls
Tick ==
    /\ \E d \in {CACHE_TTL_SECONDS \div 2, CACHE_TTL_SECONDS \div 2 + 1} :
           /\ now + d <= MaxNow
           /\ now' = now + d
    /\ UNCHANGED <<_active, _markets_loaded, tasks, loads, cache, user_data, last_set, got,
                   handled>>
    /\ UNCHANGED engineVars

NextCache ==
    \/ \E key \in CacheKeys, data \in CacheData : CacheSet(key, data)
    \/ \E key \in CacheKeys : CacheGet(key)
    \/ Tick

SpecCache == InitCache /\ [][NextCache]_vars

\* ------------------------------------------------------------------------
\* telegram_bot.py: button_callback and text_message_handler on user_data.
\* The Application handles one update after the other, so a handler is one
\* action; what Telegram, the exchange and the analysis answer is chosen
\* freely.  An entry of user_data is a record with the keys of the dict.
\* ------------------------------------------------------------------------

Users == {1, 2}
Markets == {"crypto", "forex"}
Symbols == {"BTC/USDT", "PEPE/USDT"}

\* user_data.pop(user_id, None)
popUser(data, user_id) == [u \in DOMAIN data \ {user_id} |-> data[u]]

\* user_data[user_id] = entry
putUser(data, user_id, entry) ==
    [u \in DOMAIN data \cup {user_id} |-> IF u = user_id THEN entry ELSE data[u]]

Handled(handler, user_id, analysis, didRaise) ==
    handled' = [handler |-> handler, user |-> user_id, analysis |-> analysis,
                raised |-> didRaise]

BotFrame ==
    /\ UNCHANGED <<_active, _markets_loaded, tasks, loads, cache, now, last_set, got>>
    /\ UNCHANGED engineVars

InitBot ==
    /\ ServicesIdle
    /\ EngineIdle
    /\ pc = "bot"

\* a timeframe button whose handler forgets the entry only when the
\* analysis has succeeded
ButtonTfKeepingFailed(user_id, answered, analysis_ok, result_sent, error_sent) ==
    /\ answered
    /\ user_id \in DOMAIN user_data
    /\ "symbol" \in DOMAIN user_data[user_id]
    /\ user_data' = IF analysis_ok /\ result_sent THEN popUser(user_data, user_id)
                    ELSE user_data
    /\ Handled("tf_", user_id, IF analysis_ok THEN "succeeded" ELSE "failed",
               ~(analysis_ok /\ result_sent) /\ ~error_sent)
    /\ BotFrame

\* button_callback, data "new_analysis" or "market_<market>", on an analysis
\* result or on the picker: a market button starts the user's entry anew
ButtonMarket(user_id, data, answered, sent) ==
    /\ user_data' = IF answered /\ data # "new_analysis"
                    THEN putUser(user_data, user_id, [market |-> data])
                    ELSE user_data
    /\ Handled("market_", user_id, "none", ~answered \/ ~sent)
    /\ BotFrame

\* button_callback, data "custom_<market>": the user is asked to type a symbol
ButtonCustom(user_id, market, answered, sent) ==
    /\ user_data' = IF answered
                    THEN putUser(user_data, user_id,
                                 [market |-> market, awaiting_custom |-> TRUE])
                    ELSE user_data
    /\ Handled("custom_", user_id, "none", ~answered \/ ~sent)
    /\ BotFrame

\* button_callback, data "sym_<symbol>": the symbol is added to the entry of
\* a user who has one
ButtonSym(user_id, symbol, answered, sent) ==
    /\ user_data' = IF answered /\ user_id \in DOMAIN user_data
                    THEN [user_data EXCEPT ![user_id] =
                             [k \in DOMAIN @ \cup {"symbol"} |->
                                 IF k = "symbol" THEN symbol ELSE @[k]]]
                    ELSE user_data
    /\ Handled("sym_", user_id, "none", ~answered \/ ~sent)
    /\ BotFrame

\* button_callback, data "tf_<timeframe>": without a symbol the session has
\* expired; otherwise analyze_coin runs, its result is sent by an edit, a
\* new message or chunks, an exception of the analysis or of the sending is
\* reported by an edit or a new message, and then the entry is popped.  An
\* exception of the report leaves the handler.
ButtonTf(user_id, answered, analysis_ok, result_sent, error_sent) ==
    /\ IF ~answered
       THEN /\ UNCHANGED user_data
            /\ Handled("tf_", user_id, "none", TRUE)
       ELSE IF user_id \notin DOMAIN user_data \/ "symbol" \notin DOMAIN user_data[user_id]
       THEN /\ UNCHANGED user_data
            /\ Handled("tf_", user_id, "none", ~error_sent)
       ELSE /\ user_data' = IF (analysis_ok /\ result_sent) \/ error_sent
                            THEN popUser(user_data, user_id)
                            ELSE user_data
            /\ Handled("tf_", user_id, IF analysis_ok THEN "succeeded" ELSE "failed",
                       ~(analysis_ok /\ result_sent) /\ ~error_sent)
    /\ BotFrame

\* text_message_handler: the typed symbol of a user who was asked for one.
\* typed is "invalid" (empty or too long), "unknown" (not a market of the
\* exchange), "known", or "unchecked" (the markets could not be loaded); an
\* exception of the reply to an unknown symbol is swallowed with those of
\* the validation, and the symbol is then accepted
TextMessage(user_id, symbol, typed, sent) ==
    /\ user_data' =
          IF /\ user_id \in DOMAIN user_data
             /\ "awaiting_custom" \in DOMAIN user_data[user_id]
             /\ typed # "invalid"
             /\ ~(typed = "unknown" /\ sent)
          THEN putUser(user_data, user_id,
                       [market |-> user_data[user_id].market, symbol |-> symbol])
          ELSE user_data
    /\ Handled("text", user_id, "none",
               /\ user_id \in DOMAIN user_data
               /\ "awaiting_custom" \in DOMAIN user_data[user_id]
               /\ ~sent)
    /\ BotFrame

NextBot ==
    \/ \E u \in Users, data \in Markets \cup {"new_analysis"}, answered, sent \in BOOLEAN :
           ButtonMarket(u, data, answered, sent)
    \/ \E u \in Users, market \in Markets, answered, sent \in BOOLEAN :
           ButtonCustom(u, market, answered, sent)
    \/ \E u \in Users, symbol \in Symbols, answered, sent \in BOOLEAN :
           ButtonSym(u, symbol, answered, sent)
    \/ \E u \in Users, answered, analysis_ok, result_sent, error_sent \in BOOLEAN :
           ButtonTf(u, answered, analysis_ok, result_sent, error_sent)
    \/ \E u \in Users, symbol \in Symbols, sent \in BOOLEAN,
          typed \in {"invalid", "unknown", "known", "unchecked"} :
           TextMessage(u, symbol, typed, sent)

SpecBot == InitBot /\ [][NextBot]_vars

\* ------------------------------------------------------------------------
\* Properties
\* ------------------------------------------------------------------------

\* one candle with high = low = open = close and no volume
SingleFlatCandle(o) ==
    /\ Len(o) = 1
    /\ o[1].high = o[1].low /\ o[1].open = o[1].low /\ o[1].close = o[1].low
    /\ o[1].volume = 0

\* positive prices, high >= max(open, close), low <= min(open, close)
WellFormed(o) ==
    \A i \in DOMAIN o :
        /\ o[i].open > 0 /\ o[i].high > 0 /\ o[i].low > 0 /\ o[i].close > 0
        /\ o[i].high >= Max(o[i].open, o[i].close)
        /\ o[i].low <= Min(o[i].open, o[i].close)

\* the latest bar has no range
LatestBarFlat(o) == o[Len(o)].high = o[Len(o)].low

\* the bars of the latest window of n bars
WindowBars(o, n) == {i \in DOMAIN o : i > Len(o) - n}

HighestHigh(o, n) ==
    CHOOSE x \in {o[i].high : i \in WindowBars(o, n)} :
        \A i \in WindowBars(o, n) : x >= o[i].high

LowestLow(o, n) ==
    CHOOSE x \in {o[i].low : i \in WindowBars(o, n)} :
        \A i \in WindowBars(o, n) : x <= o[i].low

\* C1: whatever snapshots compute_signal is given, the score it returns lies
\* in [-100, 100] and the confidence it returns lies in [0, 100].
C1_ScoreAndConfidenceBounded ==
    "compute_signal" \in returned =>
        /\ RGe(signal.score, RI(-100)) /\ RLe(signal.score, RI(100))
        /\ RGe(signal.confidence, RI(0)) /\ RLe(signal.confidence, RI(100))

\* compute_signal has returned its highest score, with the confidence at its cap
C1_Witness ==
    /\ "compute_signal" \in returned
    /\ RGt(signal.score, RI(90))
    /\ signal.confidence = RI(100)

\* C2: the whole engine run on a single candle with high = low = open = close
\* and no volume raises no exception.
C2_SingleFlatCandleRunRaisesNothing ==
    SingleFlatCandle(ohlcv) => raised = "none"

\* C3: on a single candle with high = low = open = close and no volume every
\* ratio indicator has its fallback value: %B 0.5, %K 50, ADX 25 with +DI and
\* -DI 50, VWAP the latest close (as compute_all rounds it), range position 50.
C3_SingleFlatCandleFallbacks ==
    (SingleFlatCandle(ohlcv) /\ {"compute_all", "find_key_levels"} \subseteq returned) =>
        /\ indicators.bb_pct_b = <<1, 2>>
        /\ indicators.stoch_k = RI(50)
        /\ indicators.adx = RI(25)
        /\ indicators.plus_di = RI(50)
        /\ indicators.minus_di = RI(50)
        /\ indicators.vwap = RoundPrice(RI(ohlcv[1].close), 2)
        /\ levels.range_position = RI(50)

\* C4 (as the code has it): bb_last returns pct_b exactly 0.5 whenever the
\* band width upper - lower it computed is exactly zero, and the quotient
\* (close - lower) / (upper - lower) whenever that width is a nonzero number.
C4_PctBHalfOnZeroBandWidth ==
    pc = "bb_last" =>
        LET width == RSub(result.upper, result.lower)
        IN  /\ REq(width, RI(0)) => result.pct_b = <<1, 2>>
            /\ (~IsNaN(width) /\ ~REq(width, RI(0))) =>
                   result.pct_b = RDiv(RSub(RI(ohlcv[Len(ohlcv)].close), result.lower), width)

\* bb_last has returned 0.5 for a full window whose latest bar has no range
C4_Witness ==
    /\ pc = "bb_last"
    /\ Len(ohlcv) >= BB_PERIOD
    /\ LatestBarFlat(ohlcv)
    /\ REq(RSub(result.upper, result.lower), RI(0))
    /\ result.pct_b = <<1, 2>>

\* C4 as stated: whenever the latest bar has high = low, bb_last returns pct_b
\* exactly 0.5, whatever the earlier closes of the Bollinger window are.
C4_PctBHalfOnFlatLatestBar ==
    (pc = "bb_last" /\ Len(ohlcv) >= BB_PERIOD /\ LatestBarFlat(ohlcv)) =>
        result.pct_b = <<1, 2>>

C6_LevelsBracketPrice ==
    (WellFormed(ohlcv) /\ "find_key_levels" \in returned) =>
        /\ RGt(levels.r1, levels.current)
        /\ RGt(levels.current, levels.s1)

\* C7: in every output of find_key_levels, r1 <= r2 when both resistances
\* have a nonzero touch count, and s1 >= s2 when both supports have one.
C7_LevelsOrdered ==
    pc = "find_key_levels" =>
        /\ (result.r1_touches # 0 /\ result.r2_touches # 0) => RLe(result.r1, result.r2)
        /\ (result.s1_touches # 0 /\ result.s2_touches # 0) => RGe(result.s1, result.s2)

\* find_key_levels has returned two touched resistances and two touched supports
C7_Witness ==
    /\ pc = "find_key_levels"
    /\ result.r1_touches # 0 /\ result.r2_touches # 0
    /\ result.s1_touches # 0 /\ result.s2_touches # 0
    /\ RLt(result.r1, result.r2)
    /\ RGt(result.s1, result.s2)

\* C8: in the list detect_patterns returns, for every (bar index, bias) pair
\* that some detector produced exactly one match survives, and its strength is
\* the greatest strength the detectors gave for that pair.
C8_OneStrongestMatchPerBarAndBias ==
    pc = "detect_patterns" =>
        LET raw == rawPatterns(ohlcv)
            of(key) == {k \in DOMAIN raw : <<raw[k].index, raw[k].bias>> = key}
            kept(key) == {j \in DOMAIN result : <<result[j].index, result[j].bias>> = key}
        IN  \A key \in {<<raw[k].index, raw[k].bias>> : k \in DOMAIN raw} :
                /\ Cardinality(kept(key)) = 1
                /\ \A j \in kept(key) :
                       /\ \A k \in of(key) : raw[k].strength <= result[j].strength
                       /\ \E k \in of(key) : raw[k].strength = result[j].strength

\* detect_patterns has returned for a bar at which two detectors gave matches
\* of one bias and of different strengths
C8_Witness ==
    /\ pc = "detect_patterns"
    /\ \E k1, k2 \in DOMAIN rawPatterns(ohlcv) :
           /\ rawPatterns(ohlcv)[k1].index = rawPatterns(ohlcv)[k2].index
           /\ rawPatterns(ohlcv)[k1].bias = rawPatterns(ohlcv)[k2].bias
           /\ rawPatterns(ohlcv)[k1].strength < rawPatterns(ohlcv)[k2].strength

\* the quotient (target2 - current) / (current - stop) of the BULLISH scenario
BullQuotient ==
    RDiv(RSub(levels.r1, levels.current), RSub(levels.current, scenarios[1].stop[1]))

\* C9 (as the code has it): the rr_ratio of the BULLISH scenario is
\* (target2 - current) / (current - stop) rounded to one decimal place when
\* current differs from stop, and 0 when current equals stop.
C9_BullRRIsRoundedQuotient ==
    "build_scenarios" \in returned =>
        /\ scenarios[1].label = "BULLISH"
        /\ levels.current # scenarios[1].stop[1] =>
               scenarios[1].rr_ratio = RRound(BullQuotient, 1)
        /\ levels.current = scenarios[1].stop[1] => scenarios[1].rr_ratio = RI(0)

\* build_scenarios has returned a BULLISH rr_ratio that the rounding changed
C9_Witness ==
    /\ "build_scenarios" \in returned
    /\ levels.current # scenarios[1].stop[1]
    /\ scenarios[1].rr_ratio # BullQuotient
    /\ scenarios[1].rr_ratio = RRound(BullQuotient, 1)

\* C9 as stated: the rr_ratio of the BULLISH scenario equals
\* (target2 - current) / (current - stop) exactly when current differs from
\* stop, and 0 when current equals stop.
C9_BullRRIsExactQuotient ==
    "build_scenarios" \in returned =>
        /\ levels.current # scenarios[1].stop[1] => scenarios[1].rr_ratio = BullQuotient
        /\ levels.current = scenarios[1].stop[1] => scenarios[1].rr_ratio = RI(0)

\* the closes go up and down in turn, and every bar has the same volume
StrictlyAlternating(o) ==
    /\ \A i \in 2..(Len(o) - 1) :
           (o[i].close - o[i - 1].close) * (o[i + 1].close - o[i].close) < 0
    /\ \A i \in DOMAIN o : o[i].volume = o[1].volume /\ o[i].volume > 0

\* C10: for a series of at least 30 candles whose closes strictly alternate
\* up and down with the same volume on every bar, obv_trend returns "flat",
\* whichever bar the 20-point OBV window starts on.
C10_AlternatingObvFlat ==
    (pc = "obv_trend" /\ Len(ohlcv) >= 30 /\ StrictlyAlternating(ohlcv)) => result = "flat"

FlatCandles(o) ==
    \A i \in DOMAIN o :
        /\ o[i].high = o[1].low /\ o[i].low = o[1].low
        /\ o[i].open = o[1].low /\ o[i].close = o[1].low

\* C12: when the smoothed true range of adx (or +DI + -DI) is zero, as on a
\* flat series of more than period candles, adx gives the fallback 50.0 for
\* the ratios with the zero divisor: +DI, -DI and the ADX made of DX.
C12_AdxFallbackOnFlatSeries ==
    ("compute_all" \in returned /\ Len(ohlcv) > ADX_PERIOD /\ FlatCandles(ohlcv)) =>
        /\ indicators.plus_di = RI(50)
        /\ indicators.minus_di = RI(50)
        /\ indicators.adx = RI(50)

\* the lists an indicator returned
SeriesLists(r) ==
    {r.sma, r.ema, r.rsi, r.atr, r.obv,
     r.bollinger_bands.upper, r.bollinger_bands.middle, r.bollinger_bands.lower,
     r.stochastic.k, r.stochastic.d,
     r.macd.macd, r.macd.signal, r.macd.histogram}

\* the undefined entries of s are its leading ones
NaNLeading(s) == \A i, j \in DOMAIN s : (i < j /\ IsNaN(s[j])) => IsNaN(s[i])

\* C13: every series-returning indicator (sma, ema, rsi, atr, bollinger_bands,
\* stochastic, macd, obv) returns lists of exactly the length of its input,
\* inputs shorter than the period included, with NaN in leading positions
\* only.
C13_SeriesAlignedWithInput ==
    pc = "series" =>
        \A s \in SeriesLists(result) : Len(s) = Len(ohlcv) /\ NaNLeading(s)

\* the verdict the thresholds give a score
ThresholdVerdict(x) ==
    CASE RGe(x, RI(60)) -> "Strong Buy"
      [] RLt(x, RI(60)) /\ RGe(x, RI(30)) -> "Buy"
      [] RLt(x, RI(30)) /\ RGe(x, RI(10)) -> "Lean Bullish"
      [] RLe(x, RI(-60)) -> "Strong Sell"
      [] RGt(x, RI(-60)) /\ RLe(x, RI(-30)) -> "Sell"
      [] RGt(x, RI(-30)) /\ RLe(x, RI(-10)) -> "Lean Bearish"
      [] OTHER -> "Neutral"

\* the clamped sum of the five sub-scores, before compute_signal rounds it
ClampedTotal ==
    _clamp(SumR(<<score_trend(trend), score_momentum(indicators), score_volume(flow),
                  score_levels(indicators, levels), score_patterns(patterns)>>),
           RI(-100), RI(100))

\* C14 (as the code has it): the verdict of a Signal is the one the
\* thresholds give the clamped total score before it is rounded, and the
\* returned score is that total rounded to one decimal place; so the verdict
\* is the one of the returned score or of a score within 0.05 of it.
C14_VerdictOfUnroundedScore ==
    "compute_signal" \in returned =>
        /\ signal.verdict = ThresholdVerdict(ClampedTotal)
        /\ signal.score = RRound(ClampedTotal, 1)
        /\ \/ signal.verdict = ThresholdVerdict(signal.score)
           \/ signal.verdict = ThresholdVerdict(RSub(signal.score, <<1, 20>>))
           \/ signal.verdict = ThresholdVerdict(RAdd(signal.score, <<1, 20>>))

\* compute_signal has returned a score that the rounding took onto a
\* threshold the clamped total is below
C14_Witness ==
    /\ "compute_signal" \in returned
    /\ signal.score = RI(60)
    /\ signal.verdict = "Buy"
    /\ RLt(ClampedTotal, RI(60))

\* C14 as stated: the verdict agrees with the returned score field under the
\* thresholds >= 60 Strong Buy, >= 30 Buy, >= 10 Lean Bullish, <= -60 Strong
\* Sell, <= -30 Sell, <= -10 Lean Bearish, otherwise Neutral.
C14_VerdictOfReturnedScore ==
    "compute_signal" \in returned => signal.verdict = ThresholdVerdict(signal.score)

\* the confirmed clusters <<price, touches>> of the highs of the lookback
\* window that lie above current * (1 + tolerance / 2)
QualifyingResistances(o) ==
    LET cl == _cluster_levels(PyFrom(Highs(o), -LEVEL_LOOKBACK), CLUSTER_TOLERANCE)
        bound == RMul(RI(Last(Closes(o))), RAdd(RI(1), RMul(CLUSTER_TOLERANCE, <<1, 2>>)))
    IN  {cl[k] : k \in {n \in DOMAIN cl : RGt(cl[n][1], bound)}}

\* the confirmed clusters of the lows that lie below current * (1 - tolerance / 2)
QualifyingSupports(o) ==
    LET cl == _cluster_levels(PyFrom(Lows(o), -LEVEL_LOOKBACK), CLUSTER_TOLERANCE)
        bound == RMul(RI(Last(Closes(o))), RSub(RI(1), RMul(CLUSTER_TOLERANCE, <<1, 2>>)))
    IN  {cl[k] : k \in {n \in DOMAIN cl : RLt(cl[n][1], bound)}}

\* the clusters of cs that have exactly n clusters of cs nearer to the price:
\* below them on the resistance side (up), above them on the support side
NthNearest(cs, n, up) ==
    {c \in cs : Cardinality({d \in cs : IF up THEN RLt(d[1], c[1]) ELSE RGt(d[1], c[1])}) = n}

\* the first and the second level of one side are the two nearest qualifying
\* clusters with their touch counts, and where there is no such cluster the
\* level is synthesized from start (the extreme of the window) by the factors
\* f1 and f2, with touch count 0
SideFilled(cs, up, start, f1, f2, lv1, touches1, lv2, touches2) ==
    /\ ~IsNaN(lv1) /\ ~IsNaN(lv2)
    /\ cs = {} =>
          /\ lv1 = RoundPrice(RMul(start, f1), 6) /\ touches1 = 0
          /\ lv2 = RoundPrice(RMul(RMul(start, f1), f2), 6) /\ touches2 = 0
    /\ cs # {} =>
          \E c \in NthNearest(cs, 0, up) :
              lv1 = RoundPrice(c[1], 6) /\ touches1 = c[2] /\ c[2] >= MIN_TOUCHES
    /\ Cardinality(cs) = 1 =>
          \E c \in cs : lv2 = RoundPrice(RMul(c[1], f2), 6) /\ touches2 = 0
    /\ Cardinality(cs) >= 2 =>
          \E c \in NthNearest(cs, 1, up) :
              lv2 = RoundPrice(c[1], 6) /\ touches2 = c[2] /\ c[2] >= MIN_TOUCHES

\* C15: find_key_levels always returns all four of r1, r2, s1, s2: the
\* nearest qualifying clusters where there are any, and for the positions no
\* qualifying cluster fills r1 = max high x 1.02, r2 = r1 x 1.03, s1 = min low
\* x 0.98, s2 = s1 x 0.97, with touch count 0.
C15_LevelsAlwaysPopulated ==
    pc = "find_key_levels" =>
        /\ SideFilled(QualifyingResistances(ohlcv), TRUE,
                      MaxOf(RSeq(PyFrom(Highs(ohlcv), -LEVEL_LOOKBACK))),
                      <<102, 100>>, <<103, 100>>,
                      result.r1, result.r1_touches, result.r2, result.r2_touches)
        /\ SideFilled(QualifyingSupports(ohlcv), FALSE,
                      MinOf(RSeq(PyFrom(Lows(ohlcv), -LEVEL_LOOKBACK))),
                      <<98, 100>>, <<97, 100>>,
                      result.s1, result.s1_touches, result.s2, result.s2_touches)

\* find_key_levels has returned a first resistance from a cluster with a
\* synthesized second one, and two synthesized supports
C15_Witness ==
    /\ pc = "find_key_levels"
    /\ Cardinality(QualifyingResistances(ohlcv)) = 1
    /\ QualifyingSupports(ohlcv) = {}
    /\ result.r1_touches >= MIN_TOUCHES /\ result.r2_touches = 0
    /\ result.s1_touches = 0 /\ result.s2_touches = 0

\* C16: for a well-formed series the range_position find_key_levels returns
\* lies in [0, 100], and it is exactly 50.0 when the highest high equals the
\* lowest low of the lookback window.
C16_RangePositionBounded ==
    (pc = "find_key_levels" /\ WellFormed(ohlcv)) =>
        /\ RGe(result.range_position, RI(0))
        /\ RLe(result.range_position, RI(100))
        /\ HighestHigh(ohlcv, LEVEL_LOOKBACK) = LowestLow(ohlcv, LEVEL_LOOKBACK) =>
               result.range_position = RI(50)

\* find_key_levels has returned the position of a close at the top of a
\* window that has range
C16_Witness ==
    /\ pc = "find_key_levels"
    /\ WellFormed(ohlcv)
    /\ HighestHigh(ohlcv, LEVEL_LOOKBACK) # LowestLow(ohlcv, LEVEL_LOOKBACK)
    /\ ohlcv[Len(ohlcv)].close = HighestHigh(ohlcv, LEVEL_LOOKBACK)
    /\ result.range_position = RI(100)

\* the mean of the latest n closes of o (of all of them when there are fewer)
MeanOfLatest(o, n) ==
    LET w == {i \in DOMAIN o : i > Len(o) - n}
    IN  Norm(SumI([k \in 1..Cardinality(w) |-> o[Len(o) - Cardinality(w) + k].close]),
             Cardinality(w))

\* the latest SMA9 exceeds SMA21 and the latest close is above SMA21
RisingPrice(o) ==
    /\ RGt(MeanOfLatest(o, SMA_FAST), MeanOfLatest(o, SMA_MID))
    /\ RGt(RI(o[Len(o)].close), MeanOfLatest(o, SMA_MID))

Momenta == {"overbought", "oversold", "bullish", "bearish", "neutral"}

\* the report of the three timeframes of tr with the momentum qualifiers ms
WithMomenta(tr, ms) ==
    trendReport([k \in 1..3 |->
        [<<tr.primary, tr.tf_1h, tr.tf_4h>>[k] EXCEPT !.momentum = ms[k]]])

\* C17: if on each of the three timeframes the latest SMA9 exceeds SMA21 and
\* the latest close is above SMA21, analyze_trend_mtf classifies every
\* timeframe as "up" or "strong_up", and score_trend of its report is
\* strictly positive, as it is of the report with any other momentum
\* qualifiers.
C17_RisingPriceScoresPositive ==
    ("analyze_trend_mtf" \in returned
        /\ RisingPrice(ohlcv) /\ RisingPrice(ohlcv_1h) /\ RisingPrice(ohlcv_4h)) =>
        /\ \A tf \in {trend.primary, trend.tf_1h, trend.tf_4h} :
               tf.direction \in {"up", "strong_up"}
        /\ \A ms \in [1..3 -> Momenta] : RGt(score_trend(WithMomenta(trend, ms)), RI(0))
        /\ "score_trend" \in returned => RGt(result, RI(0))

\* score_trend has returned for three rising timeframes, one of them
\* "strong_up" and one "up"
C17_Witness ==
    /\ "score_trend" \in returned
    /\ RisingPrice(ohlcv) /\ RisingPrice(ohlcv_1h) /\ RisingPrice(ohlcv_4h)
    /\ trend.primary.direction = "strong_up"
    /\ trend.tf_1h.direction = "up"
    /\ RGt(result, RI(0))

\* the volume of the latest FLOW_CANDLES bars of o that close above their
\* open, and the volume of all of them
RecentBuyVolume(o) ==
    SumI([k \in 1..FLOW_CANDLES |->
            LET bar == o[Len(o) - FLOW_CANDLES + k]
            IN  IF bar.close > bar.open THEN bar.volume ELSE 0])

RecentVolume(o) == SumI([k \in 1..FLOW_CANDLES |-> o[Len(o) - FLOW_CANDLES + k].volume])

\* the rules of the flow, in their order, for a buy share and an OBV trend
FlowRules(buy_pct, _obv) ==
    << <<RGt(buy_pct, RI(60)) /\ _obv = "rising", "strong_inflow">>,
       <<RGt(buy_pct, RI(55)), "inflow">>,
       <<RLt(buy_pct, RI(40)) /\ _obv = "falling", "strong_outflow">>,
       <<RLt(buy_pct, RI(45)), "outflow">>,
       <<TRUE, "balanced">> >>

FirstMatching(rules) ==
    rules[CHOOSE i \in DOMAIN rules : rules[i][1] /\ \A j \in 1..(i - 1) : ~rules[j][1]][2]

\* the latest FLOW_CANDLES bars of o are in turns bought (close above open)
\* and sold, all with the same volume
AlternatingBars(o) ==
    \A k \in (Len(o) - FLOW_CANDLES + 2)..Len(o) :
        /\ (o[k].close > o[k].open) # (o[k - 1].close > o[k - 1].open)
        /\ o[k].volume = o[k - 1].volume

\* C18: analyze_money_flow classifies the flow by the first matching rule of
\* its list, on the buy share of the volume of the last 10 candles rounded to
\* one decimal; a share of exactly 50% (bought and sold candles of one
\* volume in turns, or no recent volume) is "balanced" whatever the OBV trend.
C18_FlowByFirstMatchingRule ==
    "analyze_money_flow" \in returned =>
        /\ flow.buy_pct =
               IF RecentVolume(ohlcv) > 0
               THEN RRound(Norm(100 * RecentBuyVolume(ohlcv), RecentVolume(ohlcv)), 1)
               ELSE RI(50)
        /\ flow.flow = FirstMatching(FlowRules(flow.buy_pct, flow.obv_trend))
        /\ 2 * RecentBuyVolume(ohlcv) = RecentVolume(ohlcv) => flow.flow = "balanced"
        /\ AlternatingBars(ohlcv) => flow.flow = "balanced"

\* half of the recent volume is bought while the OBV is rising
C18_Witness ==
    /\ "analyze_money_flow" \in returned
    /\ RecentVolume(ohlcv) > 0
    /\ 2 * RecentBuyVolume(ohlcv) = RecentVolume(ohlcv)
    /\ flow.obv_trend = "rising"
    /\ flow.flow = "balanced"

\* the prices in ascending order: the i-th is the price v with fewer than i
\* prices below it and at least i prices not above it
Ascending(prices) ==
    [i \in DOMAIN prices |->
        CHOOSE v \in {prices[k] : k \in DOMAIN prices} :
            /\ Cardinality({k \in DOMAIN prices : prices[k] < v}) < i
            /\ Cardinality({k \in DOMAIN prices : prices[k] <= v}) >= i]

\* b is within the tolerance fraction of a
WithinTolerance(a, b) == 200 * (b - a) <= 3 * a

\* the run of sorted that starts at i, for the places starts where runs start
RunFrom(sorted, starts, i) ==
    LET next == {j \in starts : j > i}
        last == IF next = {} THEN Len(sorted)
                ELSE (CHOOSE j \in next : \A k \in next : j <= k) - 1
    IN  SubSeq(sorted, i, last)

\* the runs of a split are those of _cluster_levels: every member is within
\* the tolerance of the run's lowest, and the price a run stops at is not
RunsOfClusterLevels(sorted, starts) ==
    /\ sorted # <<>> => 1 \in starts
    /\ \A i \in starts :
           /\ \A k \in DOMAIN RunFrom(sorted, starts, i) :
                  WithinTolerance(sorted[i], RunFrom(sorted, starts, i)[k])
           /\ i + Len(RunFrom(sorted, starts, i)) <= Len(sorted) =>
                  ~WithinTolerance(sorted[i], sorted[i + Len(RunFrom(sorted, starts, i))])

\* the starts of the runs with at least MIN_TOUCHES members, in ascending order
ReportedStarts(sorted, starts) ==
    LET big == {i \in starts : Len(RunFrom(sorted, starts, i)) >= MIN_TOUCHES}
    IN  [n \in 1..Cardinality(big) |->
            CHOOSE i \in big : Cardinality({j \in big : j <= i}) = n]

\* C19: _cluster_levels splits the sorted prices into disjoint runs of
\* consecutive values whose members are all within the tolerance fraction of
\* the run's lowest member, and reports (mean, size) for exactly the runs of
\* at least MIN_TOUCHES members; the touch counts sum to at most the number
\* of prices, and the levels are in strictly ascending order.
C19_ClustersAreRunsOfSortedPrices ==
    "_cluster_levels" \in returned =>
        LET sorted == Ascending(Highs(ohlcv))
        IN  /\ \E starts \in SUBSET (DOMAIN sorted) :
                   /\ RunsOfClusterLevels(sorted, starts)
                   /\ LET rep == ReportedStarts(sorted, starts)
                      IN  /\ Len(result) = Len(rep)
                          /\ \A n \in DOMAIN rep :
                                 LET run == RunFrom(sorted, starts, rep[n])
                                 IN  result[n] = <<Norm(SumI(run), Len(run)), Len(run)>>
            /\ SumI([n \in DOMAIN result |-> result[n][2]]) <= Len(ohlcv)
            /\ \A n \in 2..Len(result) : RLt(result[n - 1][1], result[n][1])

\* two levels are reported: 1000 and 1015 make the first, and 1030, within
\* the tolerance of 1015 but not of 1000, starts the second
C19_Witness ==
    /\ "_cluster_levels" \in returned
    /\ Len(result) = 2
    /\ result[1] = <<Norm(2015, 2), 2>>
    /\ result[2] = <<RI(1030), 2>>

\* C20: detect_patterns returns its matches ordered by bar index
\* non-increasing (most recent bar first); every match has
\* bars_ago = n - 1 - index with 0 <= bars_ago < lookback, and a strength of
\* 1, 2 or 3.
C20_MatchesMostRecentFirst ==
    pc = "detect_patterns" =>
        /\ \A k \in DOMAIN result :
               /\ result[k].bars_ago = Len(ohlcv) - 1 - result[k].index
               /\ 0 <= result[k].bars_ago /\ result[k].bars_ago < PATTERN_LOOKBACK
               /\ result[k].strength \in {1, 2, 3}
        /\ \A k \in 2..Len(result) : result[k - 1].index >= result[k].index

\* a series longer than the lookback has matches on its latest bar and on
\* the earliest bar of the lookback, and two matches on one bar
C20_Witness ==
    /\ pc = "detect_patterns"
    /\ Len(ohlcv) > PATTERN_LOOKBACK
    /\ Len(result) >= 3
    /\ result[1].bars_ago = 0
    /\ result[Len(result)].bars_ago = PATTERN_LOOKBACK - 1
    /\ \E k \in 2..Len(result) : result[k - 1].index = result[k].index

\* the entry points of one call of analyze_coin_raw, in the order they run
EntryPoints ==
    <<"compute_all", "detect_patterns", "find_key_levels", "analyze_trend_mtf",
      "analyze_money_flow", "compute_signal", "build_scenarios">>

\* the call is in an entry point that runs after the entry point name
RunsAfter(name) ==
    \E i, j \in DOMAIN EntryPoints : EntryPoints[i] = name /\ EntryPoints[j] = pc /\ i < j

\* a step of a running call leaves its series, and the values its entry
\* points have returned, as they are
ArgumentsKept ==
    pc \in {EntryPoints[i] : i \in DOMAIN EntryPoints} =>
        /\ ohlcv' = ohlcv /\ ohlcv_1h' = ohlcv_1h /\ ohlcv_4h' = ohlcv_4h
        /\ RunsAfter("compute_all") => indicators' = indicators
        /\ RunsAfter("detect_patterns") => patterns' = patterns
        /\ RunsAfter("find_key_levels") => levels' = levels
        /\ RunsAfter("analyze_trend_mtf") => trend' = trend
        /\ RunsAfter("analyze_money_flow") => flow' = flow

RawScore ==
    SumR(<<score_trend(trend), score_momentum(indicators), score_volume(flow),
           score_levels(indicators, levels), score_patterns(patterns)>>)

\* C22: the final clamp of compute_signal never changes the value: the
\* momentum sub-score has magnitude at most 20 and the levels sub-score at
\* most 12, so the raw sum of the five sub-scores has magnitude at most 92,
\* and a score of +100 or -100 is not returned.
C22_FinalClampIsIdentity ==
    "compute_signal" \in returned =>
        /\ RLe(RAbs(score_momentum(indicators)), RI(20))
        /\ RLe(RAbs(score_levels(indicators, levels)), RI(12))
        /\ RLe(RAbs(RawScore), RI(92))
        /\ _clamp(RawScore, RI(-100), RI(100)) = RawScore
        /\ signal.score = RRound(RawScore, 1)
        /\ RAbs(signal.score) # RI(100)

\* the five sub-scores are all at their largest: the raw sum is 92
C22_Witness ==
    /\ "compute_signal" \in returned
    /\ score_momentum(indicators) = RI(20)
    /\ score_levels(indicators, levels) = RI(12)
    /\ RawScore = RI(92)
    /\ signal.score = RI(92)

\* C23: for the level set find_key_levels makes of a well-formed series, the
\* rr_ratio of the three scenarios of build_scenarios (BULLISH, BEARISH,
\* RANGE-BOUND) is non-negative, and it is 0 when the ATR is 0.
C23_RiskRewardNonNegative ==
    (pc = "done" /\ WellFormed(ohlcv)) =>
        /\ levels = find_key_levels(ohlcv)
        /\ Len(scenarios) = 3
        /\ <<scenarios[1].label, scenarios[2].label, scenarios[3].label>>
               = <<"BULLISH", "BEARISH", "RANGE-BOUND">>
        /\ \A k \in 1..3 : RGe(scenarios[k].rr_ratio, RI(0))
        /\ REq(levels.atr, RI(0)) => \A k \in 1..3 : scenarios[k].rr_ratio = RI(0)

\* the scenarios of a series without range: the ATR is 0
C23_Witness ==
    /\ pc = "done"
    /\ WellFormed(ohlcv)
    /\ REq(levels.atr, RI(0))
    /\ \A k \in 1..3 : scenarios[k].rr_ratio = RI(0)

\* C24: for the flow report analyze_money_flow makes, the confluence counts
\* of build_scenarios satisfy 1 <= bull_confluence + bear_confluence <= 3,
\* so the BULLISH and the BEARISH scenario never both have the default
\* trigger (no trigger part) and never both have the probability "low".
C24_ConfluenceCounts ==
    pc = "done" =>
        /\ flow = analyze_money_flow(ohlcv)
        /\ flow.price_vs_vwap \in {"above", "below"}
        /\ \A k \in 1..2 : scenarios[k].confluence = Len(scenarios[k].trigger)
        /\ scenarios[1].confluence + scenarios[2].confluence \in 1..3
        /\ ~(scenarios[1].trigger = <<>> /\ scenarios[2].trigger = <<>>)
        /\ ~(scenarios[1].probability = "low" /\ scenarios[2].probability = "low")

\* one scenario has all three confirmations, the other has none: the
\* default trigger and the probability "low"
C24_Witness ==
    /\ pc = "done"
    /\ \E k \in 1..2 :
           /\ scenarios[k].confluence = 0
           /\ scenarios[k].trigger = <<>> /\ scenarios[k].probability = "low"
           /\ scenarios[3 - k].confluence = 3 /\ scenarios[3 - k].probability # "low"

\* C25: in the level set find_key_levels returns each touch count is 0 (a
\* synthesized level: no qualifying cluster is left for the position) or at
\* least MIN_TOUCHES (a confirmed cluster), and when r1 is synthesized r2 is
\* too, as is s2 when s1 is.
C25_TouchesZeroOrConfirmed ==
    pc = "find_key_levels" =>
        /\ \A t \in {result.r1_touches, result.r2_touches,
                     result.s1_touches, result.s2_touches} : t = 0 \/ t >= MIN_TOUCHES
        /\ result.r1_touches = 0 <=> QualifyingResistances(ohlcv) = {}
        /\ result.r2_touches = 0 <=> Cardinality(QualifyingResistances(ohlcv)) < 2
        /\ result.s1_touches = 0 <=> QualifyingSupports(ohlcv) = {}
        /\ result.s2_touches = 0 <=> Cardinality(QualifyingSupports(ohlcv)) < 2
        /\ result.r1_touches = 0 => result.r2_touches = 0
        /\ result.s1_touches = 0 => result.s2_touches = 0

\* the resistances are both synthesized while the first support is a
\* confirmed cluster
C25_Witness ==
    /\ pc = "find_key_levels"
    /\ result.r1_touches = 0 /\ result.r2_touches = 0
    /\ result.s1_touches >= MIN_TOUCHES

\* the place of the detector of a pattern in the order detect_patterns calls
\* the detectors in
DetectorRank(name) ==
    CASE name = "Doji" -> 1
      [] name \in {"Hammer", "Hanging Man"} -> 2
      [] name \in {"Shooting Star", "Inverted Hammer"} -> 3
      [] name \in {"Bullish Engulfing", "Bearish Engulfing"} -> 4
      [] name \in {"Morning Star", "Evening Star"} -> 5
      [] name \in {"Three White Soldiers", "Three Black Crows"} -> 6
      [] name \in {"Tweezer Top", "Tweezer Bottom"} -> 7
      [] name \in {"Bullish Pin Bar", "Bearish Pin Bar"} -> 8

\* the raw matches of the scan, as a set
RawMatches(o) == {rawPatterns(o)[k] : k \in DOMAIN rawPatterns(o)}

\* C26: of the raw matches that share a (bar index, bias), detect_patterns
\* keeps one of the highest strength, and among those of the highest strength
\* the one of the earliest detector in the order Doji, Hammer, Shooting Star,
\* Engulfing, Morning/Evening Star, Three Soldiers/Crows, Tweezer, Pin Bar;
\* the output has at most three matches per bar.
C26_EarliestDetectorWinsTies ==
    pc = "detect_patterns" =>
        /\ \A k \in DOMAIN result : result[k] \in RawMatches(ohlcv)
        /\ \A q \in RawMatches(ohlcv) :
               \E k \in DOMAIN result :
                   /\ result[k].index = q.index /\ result[k].bias = q.bias
                   /\ result[k].strength >= q.strength
                   /\ result[k].strength = q.strength =>
                          DetectorRank(result[k].name) <= DetectorRank(q.name)
        /\ \A i \in 0..(Len(ohlcv) - 1) :
               Cardinality({k \in DOMAIN result : result[k].index = i}) <= 3

\* two detectors match one bar with the same bias and the same strength, no
\* match of that bar and bias is stronger, and the match of the earlier
\* detector is in the output
C26_Witness ==
    /\ pc = "detect_patterns"
    /\ \E p, q \in RawMatches(ohlcv) :
           /\ p.index = q.index /\ p.bias = q.bias /\ p.strength = q.strength
           /\ DetectorRank(p.name) < DetectorRank(q.name)
           /\ \A r \in RawMatches(ohlcv) :
                  (r.index = p.index /\ r.bias = p.bias) => r.strength <= p.strength
           /\ \E k \in DOMAIN result : result[k] = p

\* the load_markets calls of an instance that are in flight
LoadsInFlight(i) == {l \in loads : l.self = i /\ l.outcome = "pending"}

\* C27: the market metadata of a client is loaded at most once: once a
\* fetch has started load_markets no second call is issued, so at most one
\* load_markets call of a client is in flight at any time.
C27_MarketsLoadedOnce ==
    \A i \in DOMAIN _active : Cardinality(LoadsInFlight(i)) <= 1

\* the failed load_markets calls on the primary that the coroutine of
\* tasks[t] has made in its _ensure_markets call
FailedOnPrimary(log, t) ==
    {l \in log : l.by = t /\ l.exchange = "Bybit" /\ l.outcome = "failed"}

SwitchesOnlyAfterThreeFailures ==
    /\ \A i \in DOMAIN _active :
          /\ _active[i] = "KuCoin" => _active'[i] = "KuCoin"
          /\ _active[i] = "Bybit" /\ _active'[i] = "KuCoin" =>
                \E t \in DOMAIN tasks :
                    /\ tasks[t].self = i
                    /\ tasks[t].pc = "load_markets"
                    /\ Cardinality(FailedOnPrimary(loads', t)) = 3
    /\ \A i \in DOMAIN _active' \ DOMAIN _active :
          _active'[i] = "Bybit" /\ ~_markets_loaded'[i]

\* C28: the active exchange of a client becomes the fallback only in a step
\* of an _ensure_markets call whose three load_markets calls on the primary
\* have failed; a client whose active exchange is the fallback keeps it,
\* whatever fails or is retried later, and only the instance that follows
\* close() starts with the primary again.
C28_FallbackIsKept == [][SwitchesOnlyAfterThreeFailures]_vars

\* a second fetch_multi_tf finds the fallback active and the markets not
\* loaded, retries three times on the fallback and calls it a fourth time
C28_Witness ==
    \E t \in DOMAIN tasks :
        /\ tasks[t].call = 2
        /\ tasks[t].pc = "load_fallback"
        /\ _active[tasks[t].self] = "KuCoin"
        /\ Cardinality({l \in loads : l.by = t /\ l.exchange = "KuCoin"}) = 4

\* the set call that CacheManager.get(key) can answer from: the latest one
\* of the key, when less than ttl seconds have passed since
Fresh(key) ==
    key \in DOMAIN last_set /\ now - last_set[key][2] < CACHE_TTL_SECONDS

GetAnswersFromLatestSet ==
    \A key \in CacheKeys :
        CacheGet(key) =>
            /\ got' = <<key, IF Fresh(key) THEN last_set[key][1] ELSE "None">>
            /\ ~Fresh(key) => key \notin DOMAIN cache'
            /\ \A k \in CacheKeys \ {key} :
                   (k \in DOMAIN cache') = (k \in DOMAIN cache)

\* C29: whatever set and get calls and whatever time went before,
\* get(key) returns the value of the latest set of the key when that set is
\* less than ttl seconds old, and None otherwise; after a get that returned
\* None the key is not in the cache, and no other key is removed.
C29_GetReturnsFreshValueOnly == [][GetAnswersFromLatestSet]_vars

\* a get exactly ttl seconds after the set has returned None and removed
\* the entry
C29_Witness ==
    \E key \in CacheKeys :
        /\ key \in DOMAIN last_set
        /\ now - last_set[key][2] = CACHE_TTL_SECONDS
        /\ got = <<key, "None">>
        /\ key \notin DOMAIN cache

\* every entry of user_data holds a market
EntriesHoldMarket(data) == \A u \in DOMAIN data : "market" \in DOMAIN data[u]

\* the entry of the user of the update handled in this step holds a symbol
\* when the handler starts
HadSymbol ==
    handled'.user \in DOMAIN user_data /\ "symbol" \in DOMAIN user_data[handled'.user]

AnalysisNeedsSymbol ==
    handled'.handler = "tf_" /\ handled'.analysis # "none" => HadSymbol

NoSymbolNoAnalysis ==
    handled'.handler = "tf_" /\ ~HadSymbol =>
        handled'.analysis = "none" /\ user_data' = user_data

EntryGoneAfterAnalysis ==
    handled'.handler = "tf_" /\ handled'.analysis # "none" =>
        handled'.user \notin DOMAIN user_data'

EntryGoneUnlessRaised ==
    handled'.handler = "tf_" /\ handled'.analysis # "none" =>
        IF handled'.raised THEN user_data' = user_data
        ELSE user_data' = popUser(user_data, handled'.user)

SessionKept ==
    /\ EntriesHoldMarket(user_data')
    /\ AnalysisNeedsSymbol
    /\ NoSymbolNoAnalysis
    /\ EntryGoneAfterAnalysis

SessionKeptUnlessRaised ==
    /\ EntriesHoldMarket(user_data')
    /\ AnalysisNeedsSymbol
    /\ NoSymbolNoAnalysis
    /\ EntryGoneUnlessRaised

\* C30 as stated: across all button callbacks and text messages every
\* entry of user_data holds a market, the tf_ handler runs the analysis only
\* for a user whose entry holds a symbol and otherwise runs none, and after
\* a tf_ handler that ran the analysis the user has no entry, whether the
\* analysis succeeded or failed.
C30_SessionRemovedAfterAnalysis == [][SessionKept]_vars

\* C30, amended: every entry of user_data holds a market, the tf_ handler
\* runs the analysis only for a user whose entry holds a symbol and
\* otherwise runs none and changes nothing, and a tf_ handler that ran the
\* analysis removes the user's entry exactly when it returns: when the
\* report of a failure cannot be sent either, the handler raises and the
\* entry stays as it was.
C30_SessionRemovedWhenHandlerReturns == [][SessionKeptUnlessRaised]_vars

\* the analysis of a user with a symbol has failed, the failure has been
\* reported and the entry is gone, while another user's entry is kept
C30_Witness ==
    /\ handled.handler = "tf_"
    /\ handled.analysis = "failed"
    /\ ~handled.raised
    /\ handled.user \notin DOMAIN user_data
    /\ \E u \in DOMAIN user_data : "symbol" \in DOMAIN user_data[u]

====
